---- MODULE Spec2Model ----
\* Model of the noise-weighted inner-product classes of
\* lalinference/rapid_pe/lalsimutils.py (InnerProduct, RealIP,
\* HermitianComplexIP, ComplexIP, Overlap, ComplexOverlap).
\*
\* Real numbers are exact rationals <<n, d>> (d > 0, lowest terms); complex
\* numbers are records [re, im] of rationals; numpy arrays are sequences, so
\* the code's index i is position i + 1.
EXTENDS Integers, Sequences, FiniteSets, TLC

----------------------------------------------------------------------------
\* Exact rational arithmetic

IAbs(n) == IF n < 0 THEN -n ELSE n

RECURSIVE GCD(_, _)
GCD(a, b) == IF b = 0 THEN a ELSE GCD(b, a % b)

Reduce(n, d, g) == <<n \div g, d \div g>>
\* the rational n/d (d > 0) in lowest terms
Rat(n, d) == Reduce(n, d, GCD(IAbs(n), d))

RInt(n) == <<n, 1>>
RZero == <<0, 1>>
ROne == <<1, 1>>

RNeg(a) == <<-a[1], a[2]>>
\* a + b over the common denominator a[2] * b[2] / g, g dividing both
AddOver(a, b, g) == Rat(a[1] * (b[2] \div g) + b[1] * (a[2] \div g), (a[2] \div g) * b[2])
RAdd(a, b) == AddOver(a, b, GCD(a[2], b[2]))
RSub(a, b) == RAdd(a, RNeg(b))
RMul(a, b) == Rat(a[1] * b[1], a[2] * b[2])
\* 1/a for a # 0
RInv(a) == IF a[1] > 0 THEN <<a[2], a[1]>> ELSE <<-a[2], -a[1]>>
RDiv(a, b) == RMul(a, RInv(b))
RAbs(a) == <<IAbs(a[1]), a[2]>>
\* the sign of b - a: the numerator of the difference
DiffNum(a, b, g) == b[1] * (a[2] \div g) - a[1] * (b[2] \div g)
RLeq(a, b) == DiffNum(a, b, GCD(a[2], b[2])) >= 0
RLt(a, b) == DiffNum(a, b, GCD(a[2], b[2])) > 0

\* Python's int(x): truncation toward zero
PyInt(a) == IF a[1] >= 0 THEN a[1] \div a[2] ELSE -((-a[1]) \div a[2])

\* Python 2's round(x): the nearest integer, halves away from zero
PyRound(a) ==
    IF a[1] >= 0 THEN (2 * a[1] + a[2]) \div (2 * a[2])
    ELSE -((2 * (-a[1]) + a[2]) \div (2 * a[2]))

\* Python 2's a / b of two ints (floor division)
PyIntDiv(a, b) == a \div b

\* Python's range(a, b) as the set of its values
Range(a, b) == a .. (b - 1)

----------------------------------------------------------------------------
\* Square roots, kept exact: a non-negative real is [pow |-> p, rad |-> q],
\* the 2^p-th root of the rational q >= 0, with p as small as possible (a
\* rational has p = 0).  NaN is the root of a negative number.

\* the integer square root of n >= 0, by bisection of lo^2 <= n < hi^2
RECURSIVE ISqrtIn(_, _, _)
ISqrtIn(n, lo, hi) ==
    IF hi - lo <= 1 THEN lo
    ELSE IF ((lo + hi) \div 2) * ((lo + hi) \div 2) <= n
         THEN ISqrtIn(n, (lo + hi) \div 2, hi)
         ELSE ISqrtIn(n, lo, (lo + hi) \div 2)
ISqrt(n) == ISqrtIn(n, 0, IF n < 46340 THEN n + 1 ELSE 46341)
SquareOf(r, n) == r * r = n
IsSquare(n) == SquareOf(ISqrt(n), n)
RIsSquare(q) == IsSquare(q[1]) /\ IsSquare(q[2])

NaN == [pow |-> -1, rad |-> RZero]

RECURSIVE Radical(_, _)
Radical(p, q) ==
    IF q[1] < 0 THEN NaN
    ELSE IF p > 0 /\ RIsSquare(q)
         THEN Radical(p - 1, <<ISqrt(q[1]), ISqrt(q[2])>>)
         ELSE [pow |-> p, rad |-> q]

FromRat(q) == [pow |-> 0, rad |-> q]

\* c * x for a rational c and a radical x of power at most 1
RadScale(c, x) ==
    IF x = NaN THEN NaN
    ELSE IF x.pow = 0 THEN FromRat(RMul(c, x.rad))
    ELSE IF c[1] < 0 THEN NaN
    ELSE Radical(1, RMul(RMul(c, c), x.rad))

\* np.sqrt(x): NaN for a negative x
NpSqrt(x) == IF x = NaN THEN NaN ELSE Radical(x.pow + 1, x.rad)

\* the square of a radical of power at most 1, a rational
RadSq(x) == IF x.pow = 0 THEN RMul(x.rad, x.rad) ELSE x.rad
\* x * x for a radical x
RadSquare(x) ==
    IF x = NaN THEN NaN
    ELSE IF x.pow <= 1 THEN FromRat(RadSq(x))
    ELSE [pow |-> x.pow - 1, rad |-> x.rad]
\* x < y for non-negative radicals of power at most 1
RadLt(x, y) == RLt(RadSq(x), RadSq(y))

----------------------------------------------------------------------------
\* Complex numbers

Cx(re, im) == [re |-> re, im |-> im]
CZero == Cx(RZero, RZero)
CInt(a, b) == Cx(RInt(a), RInt(b))
CAdd(x, y) == Cx(RAdd(x.re, y.re), RAdd(x.im, y.im))
CMul(x, y) ==
    Cx(RSub(RMul(x.re, y.re), RMul(x.im, y.im)),
       RAdd(RMul(x.re, y.im), RMul(x.im, y.re)))
CScale(r, x) == Cx(RMul(r, x.re), RMul(r, x.im))
\* np.conj
NpConj(x) == Cx(x.re, RNeg(x.im))
\* np.real
NpReal(x) == x.re
\* np.abs of a complex number: sqrt(re^2 + im^2)
NpAbs(x) == Radical(1, RAdd(RMul(x.re, x.re), RMul(x.im, x.im)))

\* np.sum of an array of complex numbers
RECURSIVE NpSum(_)
NpSum(s) == IF s = <<>> THEN CZero ELSE CAdd(Head(s), NpSum(Tail(s)))

\* a numpy array holds its values: the function f on 1 .. n as the tuple of
\* its values, each computed once
RECURSIVE Array(_, _)
Array(f, n) == IF n = 0 THEN <<>> ELSE Append(Array(f, n - 1), f[n])

----------------------------------------------------------------------------
\* Bounds of the model

\* sampled-PSD values are drawn from 0 .. MaxPSD
MaxPSD == 2
\* number of sampled-PSD shapes tried
NumPsdShapes == 2
\* number of waveform shapes tried as operands
NumWaveShapes == 2

\* Tolerance for two deltaF's to agree
TOL_DF == <<1, 1000000>>

\* a quarter of the tolerance: the deltaF tried are offset by multiples of it
QuarterTol == <<1, 4000000>>

----------------------------------------------------------------------------
\* Inputs of the constructor

Classes == {"RealIP", "HermitianComplexIP", "ComplexIP", "Overlap", "ComplexOverlap"}
OneSided == {"RealIP", "HermitianComplexIP", "Overlap"}
Maximized == {"Overlap", "ComplexOverlap"}

DeltaFs == {<<1, 2>>}
\* fNyq, fLow and fMax are these multiples of deltaF
NyqRatios == {<<1, 1>>, <<2, 1>>, <<5, 2>>}
LowRatios == {<<0, 1>>, <<3, 4>>}
MaxRatios == {<<3, 2>>, <<5, 2>>, <<3, 1>>}
None == <<0, 0>>

\* closed-form PSDs S(f): "quad" is f^2 + 1, "ramp" is 2f (zero at DC),
\* "notch" is (2f - 1)^2 (zero at f = 1/2)
PsdFns == {"quad", "ramp", "notch"}
PsdFn(fn, f) ==
    CASE fn = "quad" -> RAdd(RMul(f, f), ROne)
      [] fn = "ramp" -> RMul(RInt(2), f)
      [] fn = "notch" -> RAdd(RSub(RMul(RInt(4), RMul(f, f)), RMul(RInt(4), f)), ROne)

\* sampled PSDs of L bins: shape p has the value
\* (p * k + k * (k - 1) / 2) mod (MaxPSD + 1) at bin k - 1
PsdData(p, L) ==
    Array([k \in 1 .. L |-> RInt((p * k + (k * (k - 1)) \div 2) % (MaxPSD + 1))], L)
PsdLens == {2, 3, 4}

AnalyticPsds == {[kind |-> "func", fn |-> fn] : fn \in PsdFns}
SeriesPsds(dF) ==
    {[kind |-> "series", f0 |-> RZero, deltaF |-> RAdd(dF, RMul(RInt(o), QuarterTol)),
      data |-> PsdData(p, L)] : o \in {0, 3, 6}, p \in 1 .. NumPsdShapes, L \in PsdLens}
    \cup {[kind |-> "series", f0 |-> ROne, deltaF |-> dF, data |-> PsdData(1, 4)]}
ArrayPsds == {[kind |-> "array", data |-> PsdData(p, L)] :
                p \in 1 .. NumPsdShapes, L \in PsdLens}

----------------------------------------------------------------------------
\* InnerProduct.__init__

Zeros(n) == Array([k \in 1 .. n |-> RZero], n)

Raise(e) == [ok |-> FALSE, err |-> e]
Ok(v) == [ok |-> TRUE, val |-> v]

\* psd(i*deltaF) for the closed-form PSD fn
PsdAt(fn, dF, i) == PsdFn(fn, RMul(RInt(i), dF))

\* the bins of range(minIdx, maxIdx) at which "weights[i] = 1./psd(i*deltaF)"
\* raises: the PSD is zero there, or i is past the end of weights
BadBins(fn, dF, len1, idx) == {i \in idx : i >= len1 \/ PsdAt(fn, dF, i) = RZero}
MinOf(S) == CHOOSE i \in S : \A j \in S : i <= j

\* the loop of the analytic branch stops at the first bad bin
AnalyticLoop(fn, dF, len1, idx, bad) ==
    IF bad # {}
    THEN IF PsdAt(fn, dF, MinOf(bad)) = RZero THEN Raise("ZeroDivisionError")
         ELSE Raise("IndexError")
    ELSE Ok(Array([k \in 1 .. len1 |->
                     IF (k - 1) \in idx THEN RInv(PsdAt(fn, dF, k - 1)) ELSE RZero],
                  len1))

\* for i in range(minIdx, maxIdx): weights[i] = 1./psd(i*deltaF)
WeightsAnalytic(psd, dF, len1, lo, hi) ==
    IF psd.kind # "func"
    THEN IF Range(lo, hi) # {} THEN Raise("TypeError") ELSE Ok(Zeros(len1))
    ELSE AnalyticLoop(psd.fn, dF, len1, Range(lo, hi),
                      BadBins(psd.fn, dF, len1, Range(lo, hi)))

\* for i in range(minIdx, maxIdx): if data[i] != 0.: weights[i] = 1./data[i]
WeightsSampled(data, len1, lo, hi) ==
    IF \E i \in Range(lo, hi) : i >= Len(data) \/ i >= len1 THEN Raise("IndexError")
    ELSE Ok(Array([k \in 1 .. len1 |->
                     IF (k - 1) \in Range(lo, hi) /\ data[k] # RZero THEN RInv(data[k])
                     ELSE RZero],
                  len1))

\* variant of FillWeights: the extent of the sampled PSD is not checked
FillWeightsNoExtent(psd, flag, dF, fMax_, len1, lo, hi) ==
    IF flag = "True" THEN WeightsAnalytic(psd, dF, len1, lo, hi)
    ELSE IF flag = "False"
    THEN IF psd.kind = "series"
         THEN IF psd.f0 # RZero THEN Raise("AssertionError")
              ELSE IF ~RLeq(RAbs(RSub(psd.deltaF, dF)), TOL_DF)
                   THEN Raise("AssertionError")
              ELSE WeightsSampled(psd.data, len1, lo, hi)
         ELSE IF psd.kind = "func" THEN Raise("TypeError")
              ELSE WeightsSampled(psd.data, len1, lo, hi)
    ELSE Raise("ValueError")

\* the branch on analyticPSD_Q, with the checks of the sampled PSD's
\* spacing and extent
FillWeights(psd, flag, dF, fMax_, len1, lo, hi) ==
    IF flag = "True" THEN WeightsAnalytic(psd, dF, len1, lo, hi)
    ELSE IF flag = "False"
    THEN IF psd.kind = "series"
         THEN IF psd.f0 # RZero THEN Raise("AssertionError")
              ELSE IF ~RLeq(RAbs(RSub(psd.deltaF, dF)), TOL_DF)
                   THEN Raise("AssertionError")
              ELSE IF ~RLeq(fMax_, RMul(RInt(Len(psd.data) - 1), psd.deltaF))
                   THEN Raise("AssertionError")
              ELSE WeightsSampled(psd.data, len1, lo, hi)
         ELSE IF psd.kind = "func" THEN Raise("TypeError")
              ELSE IF ~RLeq(fMax_, RMul(RInt(Len(psd.data) - 1), dF))
                   THEN Raise("AssertionError")
              ELSE WeightsSampled(psd.data, len1, lo, hi)
    ELSE Raise("ValueError")

----------------------------------------------------------------------------
\* Discrete Fourier transforms of the lengths the model reaches (2 and 4),
\* whose roots of unity are 1, i, -1, -i

\* x * i^q
MulUnit(x, q) ==
    CASE q = 0 -> x
      [] q = 1 -> Cx(RNeg(x.im), x.re)
      [] q = 2 -> Cx(RNeg(x.re), RNeg(x.im))
      [] q = 3 -> Cx(x.im, RNeg(x.re))

\* sum over k in 0 .. N-1 of x[k] * exp(sign * 2 pi i j k / N)
RECURSIVE DftSum(_, _, _, _, _)
DftSum(x, N, j, sign, k) ==
    IF k = N THEN CZero
    ELSE CAdd(MulUnit(x[k + 1], ((4 * sign * j * k) \div N) % 4),
              DftSum(x, N, j, sign, k + 1))

Dft(x, sign) == Array([j \in 1 .. Len(x) |-> DftSum(x, Len(x), j - 1, sign, 0)], Len(x))

\* np.sqrt of a rational that is a perfect square
SqrtExact(q) ==
    IF RIsSquare(q) THEN <<ISqrt(q[1]), ISqrt(q[2])>>
    ELSE CHOOSE r \in {} : TRUE

\* lal.REAL8FreqTimeFFT: the one-sided series H (length N/2 + 1) is extended
\* by Hermitian symmetry and inverse-transformed, scaled by deltaF
HermitianExtend(H, N) ==
    [k \in 1 .. N |-> IF k <= Len(H) THEN H[k] ELSE NpConj(H[N - k + 2])]
REAL8FreqTimeFFT(H, dF, N) ==
    [j \in 1 .. N |-> RMul(dF, DftSum(HermitianExtend(H, N), N, j - 1, 1, 0).re)]

\* lal.REAL8TimeFreqFFT: forward transform of a real series, scaled by its
\* deltaT = 1/(N deltaF), keeping the bins 0 .. N/2
REAL8TimeFreqFFT(h, dF, N) ==
    [k \in 1 .. (N \div 2 + 1) |->
       CScale(RInv(RMul(RInt(N), dF)),
              DftSum([j \in 1 .. N |-> Cx(h[j], RZero)], N, k - 1, -1, 0))]

\* WFD.data.data[0] = WFD.data.data[-1] = 0.
ZeroEnds(H) == [k \in 1 .. Len(H) |-> IF k = 1 \/ k = Len(H) THEN CZero ELSE H[k]]

\* for i in xrange(N_spec/2, len2side - N_spec/2): WTD.data.data[i] = 0.
ZeroMiddle(WTD, len2, N_spec) ==
    [j \in 1 .. len2 |->
       IF (j - 1) \in Range(PyIntDiv(N_spec, 2), len2 - PyIntDiv(N_spec, 2))
       THEN RZero ELSE WTD[j]]

\* self.weights = np.abs(WFD.data.data*WFD.data.data)
AbsSquare(WFD) == [k \in 1 .. Len(WFD) |-> NpAbs(CMul(WFD[k], WFD[k])).rad]

\* the inverse spectrum truncation of __init__: the weights after it
Truncate(w, dF, len1, len2, N_spec) ==
    Array(AbsSquare(ZeroEnds(REAL8TimeFreqFFT(
              ZeroMiddle(REAL8FreqTimeFFT(
                             ZeroEnds([k \in 1 .. len1 |-> Cx(SqrtExact(w[k]), RZero)]),
                             dF, len2),
                         len2, N_spec),
              dF, len2))),
          len1)

\* variant of Mirror: the first half copied without reversing
MirrorUnreversed(w, len2) ==
    Array([k \in 1 .. len2 |-> IF k >= Len(w) THEN w[k - Len(w) + 1] ELSE w[k]], len2)

\* weights2side[:len(weights)] = weights[::-1]
\* weights2side[len(weights)-1:] = weights[0:-1]
Mirror(w, len2) ==
    Array([k \in 1 .. len2 |-> IF k >= Len(w) THEN w[k - Len(w) + 1] ELSE w[Len(w) - k + 1]],
          len2)

----------------------------------------------------------------------------
\* Construction

\* T_spec is one of these multiples of deltaT = 1/(2 fNyq)
TSpecRatios == {<<0, 1>>, <<3, 2>>, <<2, 1>>}

\* what the uninitialised scratch buffers may hold before the first ip call
ScratchFill == {CZero, CInt(7, -7)}

\* "T_spec is not 0.": an object identity, true of every non-zero T_spec;
\* for a zero T_spec it depends on whether the caller's object is the
\* constant of the comparison (sameObj)
IsNotZeroObj(T_spec, sameObj) == T_spec # RZero \/ ~sameObj

\* the fields of the instance once the weights w are final
InitFields(a, len1, len2, fMax_, lo, hi, w) ==
    [cls |-> a.cls, fLow |-> a.fLow, fMax |-> fMax_, fNyq |-> a.fNyq,
     deltaF |-> a.deltaF, deltaT |-> RInv(RMul(RInt(2), a.fNyq)),
     len1side |-> len1, len2side |-> len2, minIdx |-> lo, maxIdx |-> hi,
     weights |-> w, weights2side |-> Mirror(w, len2)]

\* the truncation, if requested, of the weights w filled from the PSD
InitTruncate(a, len1, len2, fMax_, lo, hi, w, N_spec) ==
    IF a.inv_spec_trunc_Q /\ IsNotZeroObj(a.T_spec, a.sameObj)
    THEN IF ~(N_spec < PyIntDiv(len2, 2)) THEN Raise("AssertionError")
         ELSE Ok(InitFields(a, len1, len2, fMax_, lo, hi,
                            Truncate(w, a.deltaF, len1, len2, N_spec)))
    ELSE Ok(InitFields(a, len1, len2, fMax_, lo, hi, w))

\* variant of InitWeights: N_spec from the deltaT of the overlap series,
\* 1/deltaF/len2side
InitWeightsSeriesDeltaT(a, len1, len2, fMax_, lo, hi, filled) ==
    IF ~filled.ok THEN filled
    ELSE InitTruncate(a, len1, len2, fMax_, lo, hi, filled.val,
                      PyInt(RDiv(a.T_spec, RInv(RMul(a.deltaF, RInt(len2))))))

\* the outcome of filling the weights, then the truncation
InitWeights(a, len1, len2, fMax_, lo, hi, filled) ==
    IF ~filled.ok THEN filled
    ELSE InitTruncate(a, len1, len2, fMax_, lo, hi, filled.val,
                      PyInt(RDiv(a.T_spec, RInv(RMul(RInt(2), a.fNyq)))))

\* variant of InitBand: the indices truncated by int() instead of rounded
InitBandTruncated(a, len1, fMax_) ==
    IF ~RLeq(fMax_, a.fNyq) THEN Raise("AssertionError")
    ELSE InitWeights(a, len1, 2 * (len1 - 1), fMax_,
                     PyInt(RDiv(a.fLow, a.deltaF)), PyInt(RDiv(fMax_, a.deltaF)),
                     FillWeights(a.psd, a.analyticPSD_Q, a.deltaF, fMax_, len1,
                                 PyInt(RDiv(a.fLow, a.deltaF)),
                                 PyInt(RDiv(fMax_, a.deltaF))))

\* the assertion on fMax and the index range of the band
InitBand(a, len1, fMax_) ==
    IF ~RLeq(fMax_, a.fNyq) THEN Raise("AssertionError")
    ELSE InitWeights(a, len1, 2 * (len1 - 1), fMax_,
                     PyRound(RDiv(a.fLow, a.deltaF)), PyRound(RDiv(fMax_, a.deltaF)),
                     FillWeights(a.psd, a.analyticPSD_Q, a.deltaF, fMax_, len1,
                                 PyRound(RDiv(a.fLow, a.deltaF)),
                                 PyRound(RDiv(fMax_, a.deltaF))))

\* variant of InnerProductInit: len1side is int(fNyq/deltaF), without the
\* bin of frequency 0
InnerProductInitShort(a) ==
    InitBand(a, PyInt(RDiv(a.fNyq, a.deltaF)),
             IF a.fMax = None THEN a.fNyq ELSE a.fMax)

\* variant of InnerProductInit: len1side from round(fNyq/deltaF)
InnerProductInitRounded(a) ==
    InitBand(a, PyRound(RDiv(a.fNyq, a.deltaF)) + 1,
             IF a.fMax = None THEN a.fNyq ELSE a.fMax)

\* InnerProduct.__init__(fLow, fMax, fNyq, deltaF, psd, analyticPSD_Q,
\* inv_spec_trunc_Q, T_spec): the instance's fields, or the error raised
InnerProductInit(a) ==
    InitBand(a, PyInt(RDiv(a.fNyq, a.deltaF)) + 1,
             IF a.fMax = None THEN a.fNyq ELSE a.fMax)

\* the fields Overlap.__init__ and ComplexOverlap.__init__ set after the
\* base constructor: full_output, deltaT and the scratch series
OverlapFields(a, b) ==
    [cls |-> b.cls, fLow |-> b.fLow, fMax |-> b.fMax, fNyq |-> b.fNyq,
     deltaF |-> b.deltaF, deltaT |-> RDiv(RInv(b.deltaF), RInt(b.len2side)),
     len1side |-> b.len1side, len2side |-> b.len2side,
     minIdx |-> b.minIdx, maxIdx |-> b.maxIdx,
     weights |-> b.weights, weights2side |-> b.weights2side,
     full_output |-> a.full_output,
     intgd |-> Array([k \in 1 .. b.len2side |-> a.scratch], b.len2side),
     ovlp |-> Array([k \in 1 .. b.len2side |-> a.scratch], b.len2side)]

OverlapAfter(a, base) == IF ~base.ok THEN base ELSE Ok(OverlapFields(a, base.val))

\* Overlap.__init__ and ComplexOverlap.__init__
OverlapInit(a) == OverlapAfter(a, InnerProductInit(a))

NewInstance(a) == IF a.cls \in Maximized THEN OverlapInit(a) ELSE InnerProductInit(a)

\* The constructor calls tried.  A call is a record of the arguments; the
\* classes without full_output are given its default.
Args(c, b, p, q, t, f, g) ==
    [cls |-> c, fLow |-> b.fLow, fMax |-> b.fMax, fNyq |-> b.fNyq, deltaF |-> b.deltaF,
     psd |-> p, analyticPSD_Q |-> q, inv_spec_trunc_Q |-> t.on,
     T_spec |-> RMul(t.r, RInv(RMul(RInt(2), b.fNyq))), sameObj |-> t.same,
     full_output |-> f, scratch |-> g]

Band(l, m, n, dF) ==
    [fLow |-> RMul(l, dF), fMax |-> IF m = None THEN None ELSE RMul(m, dF),
     fNyq |-> RMul(n, dF), deltaF |-> dF]
BandArgs ==
    {Band(l, m, n, dF) :
        l \in LowRatios, m \in MaxRatios \cup {None}, n \in NyqRatios, dF \in DeltaFs}

Psds(dF) == AnalyticPsds \cup SeriesPsds(dF) \cup ArrayPsds
Flags == {"True", "False", "Neither"}
NoTrunc == [on |-> FALSE, r |-> RZero, same |-> TRUE]
TruncArgs == {[on |-> TRUE, r |-> r, same |-> sm] : r \in TSpecRatios, sm \in BOOLEAN}
Quad == [kind |-> "func", fn |-> "quad"]
FlagOf(p) == IF p.kind = "func" THEN "True" ELSE "False"

\* every band with every PSD and flag, without truncation
CtorBandPsd(c) ==
    UNION {{Args(c, b, p, q, NoTrunc, FALSE, CZero) : p \in Psds(b.deltaF), q \in Flags} :
             b \in BandArgs}
\* every band with every truncation request, for two PSDs
CtorTrunc(c) ==
    UNION {{Args(c, b, p, FlagOf(p), t, FALSE, CZero) :
              p \in {Quad, [kind |-> "array", data |-> PsdData(2, 4)]},
              t \in TruncArgs} : b \in BandArgs}
\* every band with every full_output and scratch content, for one PSD
CtorOpts(c) ==
    IF c \in Maximized
    THEN {Args(c, b, Quad, "True", NoTrunc, f, g) :
            b \in BandArgs, f \in BOOLEAN, g \in ScratchFill}
    ELSE {}
\* sampled PSDs of three bins, for a band whose fMax is 1e-6 above 2 * deltaF
CtorExtent(c) ==
    UNION {{Args(c, [fLow |-> RZero, fMax |-> RAdd(RMul(RInt(2), dF), TOL_DF),
                     fNyq |-> RMul(<<5, 2>>, dF), deltaF |-> dF],
                 p, "False", NoTrunc, FALSE, CZero) :
              p \in {q \in SeriesPsds(dF) \cup ArrayPsds : Len(q.data) = 3}} :
             dF \in DeltaFs}
CtorArgs(c) == CtorBandPsd(c) \cup CtorTrunc(c) \cup CtorOpts(c) \cup CtorExtent(c)

\* The instances on which methods are called: three bands (one-sided lengths
\* 2, 3 and 3, the last with the Nyquist bin inside the band) with a
\* closed-form PSD, the last band also with a sampled PSD that has a zero
\* bin, one truncated instance, and one constructor call that fails.  The
\* maximized classes are tried without full_output on zeroed scratch series
\* and, on the bands of one-sided length 3, with full_output on scratch
\* series that hold other values.
CallBands(dF) ==
    {Band(<<0, 1>>, None, <<1, 1>>, dF), Band(<<3, 4>>, None, <<2, 1>>, dF),
     Band(<<0, 1>>, <<5, 2>>, <<5, 2>>, dF)}
CallOpts(c, b) ==
    IF c \in Maximized /\ b.fNyq # b.deltaF THEN {<<FALSE, CZero>>, <<TRUE, CInt(7, -7)>>}
    ELSE {<<FALSE, CZero>>}
CallArgs(c) ==
    UNION {{Args(c, b, Quad, "True", NoTrunc, o[1], o[2]) : o \in CallOpts(c, b)} :
             b \in UNION {CallBands(dF) : dF \in DeltaFs}}
    \cup UNION {{Args(c, Band(<<0, 1>>, <<5, 2>>, <<5, 2>>, dF),
                      [kind |-> "array", data |-> PsdData(2, 4)], "False", NoTrunc,
                      FALSE, CZero),
                 Args(c, Band(<<0, 1>>, None, <<2, 1>>, dF), Quad, "True",
                      [on |-> TRUE, r |-> ROne, same |-> FALSE], TRUE, CZero),
                 Args(c, Band(<<0, 1>>, <<3, 1>>, <<2, 1>>, dF), Quad, "True",
                      NoTrunc, FALSE, CZero)} :
                  dF \in DeltaFs}

----------------------------------------------------------------------------
\* Frequency series passed to ip and norm: [deltaF, data], data.length = Len(data)

\* waveform shape p at bin k - 1
WaveData(p, L) ==
    Array([k \in 1 .. L |-> CInt(((p * k + 1) % 3) - 1, ((p + k * k) % 4) - 1)], L)

Series(dF, o, p, L) ==
    [deltaF |-> RAdd(dF, RMul(RInt(o), QuarterTol)), data |-> WaveData(p, L)]

\* the length the class expects of its operands, and a wrong one
RightLen(s) == IF s.cls \in OneSided THEN s.len1side ELSE s.len2side
WrongLen(s) ==
    IF s.len1side = s.len2side THEN s.len1side + 1
    ELSE IF s.cls \in OneSided THEN s.len2side ELSE s.len1side

\* the operands tried on the instance s: every shape at the right length and
\* the configured deltaF; shape 1 with deltaF off by three quarters of the
\* tolerance and by one and a half times the tolerance; a series of a wrong
\* length
Operands(s) ==
    {Series(s.deltaF, 0, p, RightLen(s)) : p \in 1 .. NumWaveShapes}
    \cup {Series(s.deltaF, o, 1, RightLen(s)) : o \in {3, 6}}
    \cup {Series(s.deltaF, 0, 2, WrongLen(s))}

----------------------------------------------------------------------------
\* The methods

\* abs(a - b) <= TOL_DF
Agree(a, b) == RLeq(RAbs(RSub(a, b)), TOL_DF)

\* the assertion on deltaF shared by every ip:
\* abs(h1.deltaF-h2.deltaF) <= TOL_DF and abs(h1.deltaF-self.deltaF) <= TOL_DF
DeltaFCheck(s, h1, h2) == Agree(h1.deltaF, h2.deltaF) /\ Agree(h1.deltaF, s.deltaF)

\* variant of Product: the second series conjugated instead of the first
ProductConjSecond(h1, h2, w) ==
    Array([k \in 1 .. Len(w) |-> CScale(w[k], CMul(h1.data[k], NpConj(h2.data[k])))],
          Len(w))

\* variant of Product: neither series conjugated
ProductNoConj(h1, h2, w) ==
    Array([k \in 1 .. Len(w) |-> CScale(w[k], CMul(h1.data[k], h2.data[k]))], Len(w))

\* np.conj(h1.data.data) * h2.data.data * w, element by element
Product(h1, h2, w) ==
    Array([k \in 1 .. Len(w) |-> CScale(w[k], CMul(NpConj(h1.data[k]), h2.data[k]))],
          Len(w))

Real(x) == [type |-> "real", val |-> x]
Complex(z) == [type |-> "complex", val |-> z]

\* variant of RealIPValue: the leading constant of the two-sided convention
RealIPValueTwo(s, val) == RMul(RMul(RInt(2), s.deltaF), NpReal(val))

\* 4. * self.deltaF * np.real(val)
RealIPValue(s, val) == RMul(RMul(RInt(4), s.deltaF), NpReal(val))

\* RealIP.ip
RealIP_ip(s, h1, h2) ==
    IF Len(h1.data) # s.len1side THEN Raise("AssertionError")
    ELSE IF Len(h2.data) # s.len1side THEN Raise("AssertionError")
    ELSE IF ~DeltaFCheck(s, h1, h2) THEN Raise("AssertionError")
    ELSE Ok(Real(FromRat(RealIPValue(s, NpSum(Product(h1, h2, s.weights))))))

\* np.sqrt( 4. * self.deltaF * np.abs(val) )
OneSidedNormValue(s, val) == NpSqrt(RadScale(RMul(RInt(4), s.deltaF), NpAbs(val)))

\* variant of OneSidedNorm: the length of h is not checked
OneSidedNormNoLength(s, h) ==
    IF ~Agree(h.deltaF, s.deltaF) THEN Raise("AssertionError")
    ELSE Ok(Real(OneSidedNormValue(s, NpSum(Product(h, h, s.weights)))))

\* the norm of the one-sided classes (RealIP, HermitianComplexIP, Overlap)
OneSidedNorm(s, h) ==
    IF Len(h.data) # s.len1side THEN Raise("AssertionError")
    ELSE IF ~Agree(h.deltaF, s.deltaF) THEN Raise("AssertionError")
    ELSE Ok(Real(OneSidedNormValue(s, NpSum(Product(h, h, s.weights)))))

RealIP_norm(s, h) == OneSidedNorm(s, h)

\* val *= 4. * self.deltaF
HermitianComplexIPValue(s, val) == CScale(RMul(RInt(4), s.deltaF), val)

\* HermitianComplexIP.ip
HermitianComplexIP_ip(s, h1, h2) ==
    IF Len(h1.data) # s.len1side THEN Raise("AssertionError")
    ELSE IF Len(h2.data) # s.len1side THEN Raise("AssertionError")
    ELSE IF ~DeltaFCheck(s, h1, h2) THEN Raise("AssertionError")
    ELSE Ok(Complex(HermitianComplexIPValue(s, NpSum(Product(h1, h2, s.weights)))))

HermitianComplexIP_norm(s, h) == OneSidedNorm(s, h)

\* variant of ComplexIPValue: the leading constant of the one-sided convention
ComplexIPValueFour(s, val) == CScale(RMul(RInt(4), s.deltaF), val)

\* val *= 2. * self.deltaF
ComplexIPValue(s, val) == CScale(RMul(RInt(2), s.deltaF), val)

\* ComplexIP.ip
ComplexIP_ip(s, h1, h2) ==
    IF ~(Len(h1.data) = Len(h2.data) /\ Len(h2.data) = s.len2side)
    THEN Raise("AssertionError")
    ELSE IF ~DeltaFCheck(s, h1, h2) THEN Raise("AssertionError")
    ELSE Ok(Complex(ComplexIPValue(s, NpSum(Product(h1, h2, s.weights2side)))))

\* variant of TwoSidedNormValue: the leading constant of the one-sided convention
TwoSidedNormValueFour(s, val) == NpSqrt(RadScale(RMul(RInt(4), s.deltaF), NpAbs(val)))

\* np.sqrt( 2. * self.deltaF * np.abs(val) )
TwoSidedNormValue(s, val) == NpSqrt(RadScale(RMul(RInt(2), s.deltaF), NpAbs(val)))

\* the norm of the two-sided classes (ComplexIP, ComplexOverlap)
TwoSidedNorm(s, h) ==
    IF Len(h.data) # s.len2side THEN Raise("AssertionError")
    ELSE IF ~Agree(h.deltaF, s.deltaF) THEN Raise("AssertionError")
    ELSE Ok(Real(TwoSidedNormValue(s, NpSum(Product(h, h, s.weights2side)))))

ComplexIP_norm(s, h) == TwoSidedNorm(s, h)

----------------------------------------------------------------------------
\* Overlap and ComplexOverlap

\* lal.COMPLEX16FreqTimeFFT: the series F holds the frequencies
\* -N/2 df .. (N/2 - 1) df in increasing order; it is repacked with the
\* non-negative frequencies first, scaled by deltaF and inverse-transformed
Repack(F, dF, N) ==
    Array([k \in 1 .. N |->
             CScale(dF, IF k - 1 < N \div 2 THEN F[k + (N + 1) \div 2]
                        ELSE F[k - N \div 2])],
          N)
COMPLEX16FreqTimeFFT(F, dF) == Dft(Repack(F, dF, Len(F)), 1)

\* variant of AbsSeries: the real parts in place of the magnitudes
AbsSeriesReal(x) == Array([k \in 1 .. Len(x) |-> FromRat(RAbs(x[k].re))], Len(x))

\* np.abs of an array
AbsSeries(x) == Array([k \in 1 .. Len(x) |-> NpAbs(x[k])], Len(x))

\* ndarray.argmax(): the first index of the maximum
RECURSIVE ArgMaxFrom(_, _, _)
ArgMaxFrom(r, k, best) ==
    IF k > Len(r) THEN best - 1
    ELSE ArgMaxFrom(r, k + 1, IF RadLt(r[best], r[k]) THEN k ELSE best)
ArgMax(r) == ArgMaxFrom(r, 2, 1)
\* ndarray.max()
Max(r) == r[ArgMax(r) + 1]

\* np.angle(z) = atan2(im, re), kept exact as the direction of z: the point
\* where the ray from 0 through z meets |re| + |im| = 1 (the angle of 0 is
\* that of the positive reals)
Direction(z, n) ==
    IF n = RZero THEN [atan2 |-> <<RZero, ROne>>]
    ELSE [atan2 |-> <<RDiv(z.im, n), RDiv(z.re, n)>>]
NpAngle(z) == Direction(z, RAdd(RAbs(z.re), RAbs(z.im)))

\* a reference to a time series: which object it is and what it holds
TimeSeries(obj, data) == [obj |-> obj, data |-> data]

\* variant of OverlapReturn: the scratch series itself is handed out
OverlapReturnScratch(s, ovlp_, rho, rhoIdx) ==
    IF s.full_output = FALSE THEN Real(rho)
    ELSE [type |-> "tuple", rho |-> rho,
          rhoTS |-> TimeSeries("self.ovlp", Array(ovlp_, s.len2side)),
          rhoIdx |-> rhoIdx, rhoPhase |-> NpAngle(ovlp_[rhoIdx + 1])]

\* what ip returns, given the overlap series, its maximum and where it is;
\* rhoTS is a series created by the call, filled with the values of self.ovlp
OverlapReturn(s, ovlp_, rho, rhoIdx) ==
    IF s.full_output = FALSE THEN Real(rho)
    ELSE [type |-> "tuple", rho |-> rho,
          rhoTS |-> TimeSeries("rhoTS", Array(ovlp_, s.len2side)),
          rhoIdx |-> rhoIdx, rhoPhase |-> NpAngle(ovlp_[rhoIdx + 1])]
OverlapMax(s, ovlp_, rhoSeries) ==
    OverlapReturn(s, ovlp_, Max(rhoSeries), ArgMax(rhoSeries))
OverlapResult(s, ovlp_) == OverlapMax(s, ovlp_, AbsSeries(ovlp_))

\* variant of OverlapDone: the integrand is also stored over weights2side
OverlapDoneOverWeights(s, intgd_, ovlp_) ==
    [ret |-> Ok(OverlapResult(s, ovlp_)),
     self |-> [s EXCEPT !.intgd = intgd_, !.ovlp = ovlp_,
                        !.weights2side = Array([k \in 1 .. s.len2side |-> intgd_[k].re],
                                               s.len2side)]]

\* the instance after ip and what ip returned
OverlapDone(s, intgd_, ovlp_) ==
    [ret |-> Ok(OverlapResult(s, ovlp_)),
     self |-> [s EXCEPT !.intgd = intgd_, !.ovlp = ovlp_]]

\* variant of OverlapFFT: the transform is added to what self.ovlp held
OverlapFFTAccumulate(s, intgd_) ==
    OverlapDone(s, intgd_,
                Array([k \in 1 .. s.len2side |->
                         CAdd(s.ovlp[k], COMPLEX16FreqTimeFFT(intgd_, s.deltaF)[k])],
                      s.len2side))

\* lal.COMPLEX16FreqTimeFFT(self.ovlp, self.intgd, self.revplan)
OverlapFFT(s, intgd_) == OverlapDone(s, intgd_, COMPLEX16FreqTimeFFT(intgd_, s.deltaF))

\* a[:n] = v and a[n:] = v for arrays a and v
SetHead(a, n, v) == Array([k \in 1 .. Len(a) |-> IF k <= n THEN v[k] ELSE a[k]], Len(a))
SetTail(a, n, v) == Array([k \in 1 .. Len(a) |-> IF k > n THEN v[k - n] ELSE a[k]], Len(a))

\* np.zeros(n) as complex numbers
CZeros(n) == Array([k \in 1 .. n |-> CZero], n)

\* c * x for a number c and an array x
Times(c, x) == Array([k \in 1 .. Len(x) |-> CScale(c, x[k])], Len(x))
\* x[:-1]
ButLast(x) == SubSeq(x, 1, Len(x) - 1)

\* temp = 4.*np.conj(h1.data.data) * h2.data.data * self.weights
OverlapTemp(s, h1, h2) == Times(RInt(4), Product(h1, h2, s.weights))

\* variant of OverlapIntegrand: the negative frequencies are not zeroed
OverlapIntegrandNoZero(s, h1, h2) ==
    SetTail(s.intgd, s.len1side - 1, ButLast(OverlapTemp(s, h1, h2)))

\* self.intgd.data.data[:self.len1side] = np.zeros(self.len1side)
\* self.intgd.data.data[self.len1side-1:] = temp[:-1]
OverlapIntegrand(s, h1, h2) ==
    SetTail(SetHead(s.intgd, s.len1side, CZeros(s.len1side)), s.len1side - 1,
            ButLast(OverlapTemp(s, h1, h2)))

\* variant of Overlap_ip: deltaF is checked after the negative frequencies of
\* the integrand have been zeroed
Overlap_ipLateCheck(s, h1, h2) ==
    IF ~(Len(h1.data) = Len(h2.data) /\ Len(h2.data) = s.len1side)
    THEN [ret |-> Raise("AssertionError"), self |-> s]
    ELSE IF ~DeltaFCheck(s, h1, h2)
    THEN [ret |-> Raise("AssertionError"),
          self |-> [s EXCEPT !.intgd = SetHead(s.intgd, s.len1side, CZeros(s.len1side))]]
    ELSE OverlapFFT(s, OverlapIntegrand(s, h1, h2))

\* Overlap.ip: the value returned or the error raised, and the instance after
Overlap_ip(s, h1, h2) ==
    IF ~(Len(h1.data) = Len(h2.data) /\ Len(h2.data) = s.len1side)
    THEN [ret |-> Raise("AssertionError"), self |-> s]
    ELSE IF ~DeltaFCheck(s, h1, h2) THEN [ret |-> Raise("AssertionError"), self |-> s]
    ELSE OverlapFFT(s, OverlapIntegrand(s, h1, h2))

Overlap_norm(s, h) == OneSidedNorm(s, h)

\* self.intgd.data.data = 2*np.conj(h1.data.data)*h2.data.data*self.weights2side
ComplexOverlapIntegrand(s, h1, h2) ==
    Array([k \in 1 .. s.len2side |->
             CScale(RMul(RInt(2), s.weights2side[k]), CMul(NpConj(h1.data[k]), h2.data[k]))],
          s.len2side)

\* ComplexOverlap.ip
ComplexOverlap_ip(s, h1, h2) ==
    IF ~(Len(h1.data) = Len(h2.data) /\ Len(h2.data) = s.len2side)
    THEN [ret |-> Raise("AssertionError"), self |-> s]
    ELSE IF ~DeltaFCheck(s, h1, h2) THEN [ret |-> Raise("AssertionError"), self |-> s]
    ELSE OverlapFFT(s, ComplexOverlapIntegrand(s, h1, h2))

ComplexOverlap_norm(s, h) == TwoSidedNorm(s, h)

\* variant of wrap_times: the offsets wrap from index len2side / 2 on
wrap_timesFromHalf(s) ==
    Array([k \in 1 .. s.len2side |->
             IF (k - 1) \in Range(s.len2side \div 2, s.len2side)
             THEN RSub(RMul(RInt(k - 1), s.deltaT), RMul(RInt(s.len2side), s.deltaT))
             ELSE RMul(RInt(k - 1), s.deltaT)],
          s.len2side)

\* Overlap.wrap_times and ComplexOverlap.wrap_times
wrap_times(s) ==
    Array([k \in 1 .. s.len2side |->
             IF (k - 1) \in Range(s.len1side, s.len2side)
             THEN RSub(RMul(RInt(k - 1), s.deltaT), RMul(RInt(s.len2side), s.deltaT))
             ELSE RMul(RInt(k - 1), s.deltaT)],
          s.len2side)

----------------------------------------------------------------------------
\* Utility functions of the module.  Numbers are rationals; a Python value
\* that may be a number or something else is a record [type, val].

Float(q) == [type |-> "float", val |-> q]
Str(t) == [type |-> "str", str |-> t]
PyNone == [type |-> "NoneType"]

\* MIN = 0. and MAX = 0.25 of sanitize_eta
MIN == RZero
MAX == <<1, 4>>

\* variant of sanitize_eta: eta above MAX is returned as it is
sanitize_etaNoCap(eta, tol, exception) ==
    IF RLt(eta, MIN) \/ RLt(RAdd(MAX, tol), eta)
    THEN IF exception = Str("error") THEN Raise("ValueError") ELSE Ok(exception)
    ELSE IF RLt(eta, tol) THEN Ok(Float(tol))
    ELSE Ok(Float(eta))

\* sanitize_eta(eta, tol, exception)
sanitize_eta(eta, tol, exception) ==
    IF RLt(eta, MIN) \/ RLt(RAdd(MAX, tol), eta)
    THEN IF exception = Str("error") THEN Raise("ValueError") ELSE Ok(exception)
    ELSE IF RLt(eta, tol) THEN Ok(Float(tol))
    ELSE IF RLt(MAX, eta) THEN Ok(Float(MAX))
    ELSE Ok(Float(eta))

\* the values of eta and tol tried, and the values of exception
EtaValues ==
    {<<-1, 100>>, RZero, <<1, 200>>, <<1, 100>>, <<1, 10>>, <<6, 25>>, MAX, <<51, 200>>,
     <<13, 50>>, <<27, 100>>, <<3, 10>>, <<1, 2>>, <<3, 4>>, ROne}
TolValues == {<<-1, 100>>, RZero, <<1, 100>>, MAX, <<1, 2>>}
ExceptionValues == {Str("error"), Str("skip"), PyNone, Float(<<-1, 1>>)}

\* Phases are whole multiples of pi/4, written as the integer multiple, so
\* that the period 2 pi is 8; thresh is a rational multiple of pi/4
TWO_PI == 8
MaxPhases == 3
PhaseValues == 0 .. (TWO_PI - 1)
ThreshValues == {<<9, 2>>, <<13, 2>>}

\* the sequences of 1 .. n values of the set S
RECURSIVE SeqsUpTo(_, _)
SeqsUpTo(S, n) ==
    IF n = 1 THEN {<<v>> : v \in S}
    ELSE SeqsUpTo(S, n - 1)
         \cup {Append(q, v) : q \in {r \in SeqsUpTo(S, n - 1) : Len(r) = n - 1}, v \in S}

\* cnt after the loop of unwind_phase has passed index i (position i + 1):
\* it is incremented in both branches
RECURSIVE WrapCount(_, _, _)
WrapCount(phase, thresh, i) ==
    IF i = 0 THEN 0
    ELSE IF RLt(thresh, RInt(phase[i] - phase[i + 1]))
         THEN WrapCount(phase, thresh, i - 1) + 1
    ELSE IF RLt(thresh, RInt(phase[i + 1] - phase[i]))
         THEN WrapCount(phase, thresh, i - 1) + 1
    ELSE WrapCount(phase, thresh, i - 1)

\* unwind_phase(phase, thresh): unwound[0] = phase[0] and
\* unwound[i] = phase[i] + cnt * 2. * np.pi
unwind_phase(phase, thresh) ==
    IF Len(phase) = 0 THEN Raise("IndexError")
    ELSE Ok(Array([k \in 1 .. Len(phase) |->
                     phase[k] + WrapCount(phase, thresh, k - 1) * TWO_PI],
                  Len(phase)))

\* ChooseWaveformParams.  A quantity q * unit, for the constants of lal that
\* scale masses and distances
Quantity(q, unit) == [val |-> q, unit |-> unit]
IntObj(n) == [type |-> "int", val |-> n]

\* the default values of the arguments of ChooseWaveformParams.__init__;
\* None, where a number may be passed, is the pair None, elsewhere "None"
Defaults ==
    [phiref |-> RZero, deltaT |-> <<1, 4096>>, m1 |-> Quantity(RInt(10), "MSUN_SI"),
     m2 |-> Quantity(RInt(10), "MSUN_SI"), s1x |-> RZero, s1y |-> RZero, s1z |-> RZero,
     s2x |-> RZero, s2y |-> RZero, s2z |-> RZero, fmin |-> RInt(40), fref |-> RZero,
     dist |-> Quantity(ROne, "1e6*PC_SI"), incl |-> RZero, lambda1 |-> RZero,
     lambda2 |-> RZero, waveFlags |-> "None", nonGRparams |-> "None", ampO |-> 0,
     phaseO |-> 7, approx |-> "TaylorT4", theta |-> RZero, phi |-> RZero, psi |-> RZero,
     tref |-> RZero, radec |-> FALSE, detector |-> "H1", deltaF |-> None, fmax |-> RZero,
     taper |-> "SIM_INSPIRAL_TAPER_NONE"]

\* the value of the argument name of a call with the keyword arguments kw
Arg(kw, name) == IF name \in DOMAIN kw THEN kw[name] ELSE Defaults[name]

\* ChooseWaveformParams.__init__: every field is set from its argument,
\* except detector, which is set to "H1"
ChooseWaveformParams(kw) ==
    [phiref |-> Arg(kw, "phiref"), deltaT |-> Arg(kw, "deltaT"), m1 |-> Arg(kw, "m1"),
     m2 |-> Arg(kw, "m2"), s1x |-> Arg(kw, "s1x"), s1y |-> Arg(kw, "s1y"),
     s1z |-> Arg(kw, "s1z"), s2x |-> Arg(kw, "s2x"), s2y |-> Arg(kw, "s2y"),
     s2z |-> Arg(kw, "s2z"), fmin |-> Arg(kw, "fmin"), fref |-> Arg(kw, "fref"),
     dist |-> Arg(kw, "dist"), incl |-> Arg(kw, "incl"), lambda1 |-> Arg(kw, "lambda1"),
     lambda2 |-> Arg(kw, "lambda2"), waveFlags |-> Arg(kw, "waveFlags"),
     nonGRparams |-> Arg(kw, "nonGRparams"), ampO |-> Arg(kw, "ampO"),
     phaseO |-> Arg(kw, "phaseO"), approx |-> Arg(kw, "approx"),
     theta |-> Arg(kw, "theta"), phi |-> Arg(kw, "phi"), psi |-> Arg(kw, "psi"),
     tref |-> Arg(kw, "tref"), radec |-> Arg(kw, "radec"), detector |-> "H1",
     deltaF |-> Arg(kw, "deltaF"), fmax |-> Arg(kw, "fmax"), taper |-> Arg(kw, "taper")]

\* lalsim.GetOrderFromString, GetApproximantFromString and GetTaperFromString,
\* for the names the rows hold
GetOrderFromString ==
    [w \in {"TaylorT4threePointFivePN", "TaylorT2twoPN"} |->
       IF w = "TaylorT2twoPN" THEN 4 ELSE 7]
GetApproximantFromString ==
    [w \in {"TaylorT4threePointFivePN", "TaylorT2twoPN"} |->
       IF w = "TaylorT2twoPN" THEN "TaylorT2" ELSE "TaylorT4"]
GetTaperFromString ==
    [t \in {"TAPER_NONE", "TAPER_START"} |->
       IF t = "TAPER_NONE" THEN "SIM_INSPIRAL_TAPER_NONE" ELSE "SIM_INSPIRAL_TAPER_START"]

\* variant of copy_sim_inspiral: fref is set as well, from f_lower
copy_sim_inspiralSetsFref(P, row) ==
    [P EXCEPT !.phiref = row.coa_phase,
              !.m1 = Quantity(row.mass1, "MSUN_SI"),
              !.m2 = Quantity(row.mass2, "MSUN_SI"),
              !.s1x = row.spin1x, !.s1y = row.spin1y, !.s1z = row.spin1z,
              !.s2x = row.spin2x, !.s2y = row.spin2y, !.s2z = row.spin2z,
              !.fmin = row.f_lower,
              !.fref = row.f_lower,
              !.dist = Quantity(row.distance, "1e6*PC_SI"),
              !.incl = row.inclination,
              !.ampO = row.amp_order,
              !.phaseO = GetOrderFromString[row.waveform],
              !.approx = GetApproximantFromString[row.waveform],
              !.theta = row.latitude,
              !.phi = row.longitude,
              !.radec = TRUE,
              !.psi = row.polarization,
              !.tref = RAdd(RInt(row.geocent_end_time),
                            Rat(row.geocent_end_time_ns, 1000000000)),
              !.taper = GetTaperFromString[row.taper]]

\* copy_sim_inspiral(row) on the instance P: the instance after the call
copy_sim_inspiral(P, row) ==
    [P EXCEPT !.phiref = row.coa_phase,
              !.m1 = Quantity(row.mass1, "MSUN_SI"),
              !.m2 = Quantity(row.mass2, "MSUN_SI"),
              !.s1x = row.spin1x, !.s1y = row.spin1y, !.s1z = row.spin1z,
              !.s2x = row.spin2x, !.s2y = row.spin2y, !.s2z = row.spin2z,
              !.fmin = row.f_lower,
              !.dist = Quantity(row.distance, "1e6*PC_SI"),
              !.incl = row.inclination,
              !.ampO = row.amp_order,
              !.phaseO = GetOrderFromString[row.waveform],
              !.approx = GetApproximantFromString[row.waveform],
              !.theta = row.latitude,
              !.phi = row.longitude,
              !.radec = TRUE,
              !.psi = row.polarization,
              !.tref = RAdd(RInt(row.geocent_end_time),
                            Rat(row.geocent_end_time_ns, 1000000000)),
              !.taper = GetTaperFromString[row.taper]]

\* a unicode string as read from a file, and str() of it
Unicode(t) == [unicode |-> t]
PyStr(u) == u.unicode

\* the lalmetaio row that copy_lsctables_sim_inspiral builds from a row of
\* lsctables: str() of waveform and taper, every other column as it is
SwigRow(row) == [row EXCEPT !.waveform = PyStr(row.waveform), !.taper = PyStr(row.taper)]

\* copy_lsctables_sim_inspiral(row) on the instance P
copy_lsctables_sim_inspiral(P, row) == copy_sim_inspiral(P, SwigRow(row))

\* Rows of a SimInspiral table as lalmetaio holds them: row n of NumRows
NumRows == 3
SimRow(n) ==
    [coa_phase |-> Rat(n, 4), mass1 |-> RInt(n + 1), mass2 |-> Rat(2 * n + 1, 2),
     spin1x |-> Rat(n, 10), spin1y |-> RZero, spin1z |-> Rat(-n, 10),
     spin2x |-> RZero, spin2y |-> Rat(n, 5), spin2z |-> RZero,
     f_lower |-> RInt(10 * n), distance |-> RInt(100 * n), inclination |-> Rat(n, 3),
     amp_order |-> n % 2,
     waveform |-> IF n % 2 = 0 THEN "TaylorT2twoPN" ELSE "TaylorT4threePointFivePN",
     latitude |-> Rat(-n, 7), longitude |-> Rat(n, 2), polarization |-> Rat(n, 8),
     geocent_end_time |-> n % 2, geocent_end_time_ns |-> 250000000 * n,
     taper |-> IF n % 2 = 0 THEN "TAPER_START" ELSE "TAPER_NONE"]
\* the same row as lsctables reads it from a file
FileRow(n) ==
    [SimRow(n) EXCEPT !.waveform = Unicode(SimRow(n).waveform),
                      !.taper = Unicode(SimRow(n).taper)]

\* keyword arguments for the fields that a SimInspiral table does not hold
\* (the first has none given)
KwArgs ==
    {[name \in {} |-> None],
     [deltaT |-> <<1, 1024>>],
     [detector |-> "L1"],
     [detector |-> "H1", fmax |-> RInt(2048)],
     [deltaT |-> <<1, 16384>>, fref |-> RInt(100), lambda1 |-> RInt(500),
      lambda2 |-> RInt(300), waveFlags |-> "flags", nonGRparams |-> "params",
      detector |-> "V1", deltaF |-> <<1, 8>>, fmax |-> RInt(1024)]}

\* Python 2 truth and order of a row bound, which is None or an int: None
\* and 0 are false, and None is below every int
Falsy(v) == v = PyNone \/ v = IntObj(0)
PyLeq(a, b) == IF a = PyNone THEN TRUE ELSE IF b = PyNone THEN FALSE ELSE a.val <= b.val

\* the keyword arguments xml_to_ChooseWaveformParams_array passes to
\* ChooseWaveformParams: its own nine arguments, given or defaulted
XmlArgs(kw) ==
    [deltaT |-> Arg(kw, "deltaT"), fref |-> Arg(kw, "fref"),
     lambda1 |-> Arg(kw, "lambda1"), lambda2 |-> Arg(kw, "lambda2"),
     waveFlags |-> Arg(kw, "waveFlags"), nonGRparams |-> Arg(kw, "nonGRparams"),
     detector |-> Arg(kw, "detector"), deltaF |-> Arg(kw, "deltaF"),
     fmax |-> Arg(kw, "fmax")]

\* Ps for rng = range(lo, hi): an instance for each row, filled from the row
RowsConverted(rows, lo, hi, kw) ==
    Array([k \in 1 .. (hi - lo) |->
             copy_lsctables_sim_inspiral(ChooseWaveformParams(XmlArgs(kw)), rows[lo + k])],
          hi - lo)

\* xml_to_ChooseWaveformParams_array(fname, minrow, maxrow, ...) on a file
\* whose SimInspiral table is table.rows, or that has no such table: then
\* the ValueError is caught and "return Ps" finds Ps unbound
xml_to_ChooseWaveformParams_array(table, minrow, maxrow, kw) ==
    IF ~table.present THEN Raise("UnboundLocalError")
    ELSE IF Falsy(minrow) /\ Falsy(maxrow)
    THEN Ok(RowsConverted(table.rows, 0, Len(table.rows), kw))
    ELSE IF ~PyLeq(IntObj(0), minrow) THEN Raise("AssertionError")
    ELSE IF ~PyLeq(minrow, maxrow) THEN Raise("AssertionError")
    ELSE IF ~PyLeq(maxrow, IntObj(Len(table.rows))) THEN Raise("AssertionError")
    ELSE Ok(RowsConverted(table.rows, minrow.val, maxrow.val, kw))

\* the files read: a table of 0 .. NumRows rows, or no table
Tables ==
    {[present |-> TRUE, rows |-> Array([i \in 1 .. L |-> FileRow(i)], L)] : L \in 0 .. NumRows}
    \cup {[present |-> FALSE, rows |-> <<>>]}
RowBounds == {PyNone} \cup {IntObj(n) : n \in (-1) .. (NumRows + 1)}

\* instances as a caller may hold them: constructed, detector assigned or not
Instances ==
    {[ChooseWaveformParams(kw) EXCEPT !.detector = d] : kw \in KwArgs, d \in {"H1", "L1"}}

\* The type names of glue.ligolw.types and its tables
IDTypes == <<"ilwd:char", "ilwd:char_u">>
StringTypes == IDTypes \o <<"char_s", "char_v", "lstring", "string">>
IntTypes == <<"int_2s", "int_2u", "int_4s", "int_4u", "int_8s", "int_8u", "int">>
FloatTypes == <<"real_4", "real_8", "float", "double">>
TimeTypes == <<"GPS", "Unix", "ISO-8601">>
Types == StringTypes \o IntTypes \o FloatTypes \o TimeTypes

ToFormat ==
    ("char_s" :> "\"%s\"") @@ ("char_v" :> "\"%s\"") @@ ("ilwd:char" :> "\"%s\"")
    @@ ("ilwd:char_u" :> "\"%s\"") @@ ("lstring" :> "\"%s\"") @@ ("string" :> "\"%s\"")
    @@ ("int_2s" :> "%d") @@ ("int_2u" :> "%u") @@ ("int_4s" :> "%d") @@ ("int_4u" :> "%u")
    @@ ("int_8s" :> "%d") @@ ("int_8u" :> "%u") @@ ("int" :> "%d")
    @@ ("real_4" :> "%.8g") @@ ("real_8" :> "%.16g") @@ ("float" :> "%.8g")
    @@ ("double" :> "%.16g")

ToPyType ==
    ("char_s" :> "unicode") @@ ("char_v" :> "unicode") @@ ("ilwd:char" :> "str")
    @@ ("ilwd:char_u" :> "str") @@ ("lstring" :> "unicode") @@ ("string" :> "unicode")
    @@ ("int_2s" :> "int") @@ ("int_2u" :> "int") @@ ("int_4s" :> "int")
    @@ ("int_4u" :> "int") @@ ("int_8s" :> "int") @@ ("int_8u" :> "int") @@ ("int" :> "int")
    @@ ("real_4" :> "float") @@ ("real_8" :> "float") @@ ("float" :> "float")
    @@ ("double" :> "float")

\* variant of ToNumPyType: the table of the integer types alone
ToNumPyTypeOfInts ==
    ("int_2s" :> "int16") @@ ("int_2u" :> "uint16") @@ ("int_4s" :> "int32")
    @@ ("int_4u" :> "uint32") @@ ("int_8s" :> "int64") @@ ("int_8u" :> "uint64")
    @@ ("int" :> "int32")

ToNumPyType ==
    ("int_2s" :> "int16") @@ ("int_2u" :> "uint16") @@ ("int_4s" :> "int32")
    @@ ("int_4u" :> "uint32") @@ ("int_8s" :> "int64") @@ ("int_8u" :> "uint64")
    @@ ("int" :> "int32") @@ ("real_4" :> "float32") @@ ("real_8" :> "float64")
    @@ ("float" :> "float64") @@ ("double" :> "float64")

ToSQLiteType ==
    ("char_s" :> "TEXT") @@ ("char_v" :> "TEXT") @@ ("ilwd:char" :> "TEXT")
    @@ ("ilwd:char_u" :> "TEXT") @@ ("lstring" :> "TEXT") @@ ("string" :> "TEXT")
    @@ ("int_2s" :> "INTEGER") @@ ("int_2u" :> "INTEGER") @@ ("int_4s" :> "INTEGER")
    @@ ("int_4u" :> "INTEGER") @@ ("int_8s" :> "INTEGER") @@ ("int_8u" :> "INTEGER")
    @@ ("int" :> "INTEGER") @@ ("real_4" :> "REAL") @@ ("real_8" :> "REAL")
    @@ ("float" :> "REAL") @@ ("double" :> "REAL")

\* the four tables by name, and table[key] of Python: the value, or KeyError
TableNamed ==
    [ToFormat |-> ToFormat, ToPyType |-> ToPyType, ToNumPyType |-> ToNumPyType,
     ToSQLiteType |-> ToSQLiteType]
Subscript(table, key) ==
    IF key \in DOMAIN table THEN Ok(table[key]) ELSE Raise("KeyError")

\* the names of a list
Elements(l) == {l[i] : i \in 1 .. Len(l)}

----------------------------------------------------------------------------
\* State

VARIABLES
    pc,     \* "new" before construction, then "ready" or "failed"
    self,   \* the fields of the instance
    ctor,   \* the constructor call: its arguments and, if it failed, its error
    call,   \* the last method call: its arguments and its outcome
    kept    \* a series an earlier ip returned, which the caller still holds

vars == <<pc, self, ctor, call, kept>>

NoInstance == [cls |-> "none"]
NoCall == [op |-> "none"]
NoSeries == [obj |-> "none"]

\* the held series after ip has left ovlp_ in self.ovlp: a reference to
\* self.ovlp sees the new values, a series of its own keeps its values
Held(k, ovlp_) == IF k.obj = "self.ovlp" THEN [k EXCEPT !.data = ovlp_] ELSE k

Init ==
    /\ pc = "new"
    /\ self = NoInstance
    /\ ctor = NoCall
    /\ call = NoCall
    /\ kept = NoSeries

\* obj = cls(...): the constructor returns an instance or raises
ConstructFrom(args) ==
    /\ pc = "new"
    /\ \E a \in args : \E r \in {NewInstance(a)} :
         /\ pc' = IF r.ok THEN "ready" ELSE "failed"
         /\ self' = IF r.ok THEN r.val ELSE NoInstance
         /\ ctor' = [op |-> "__init__", args |-> a,
                     err |-> IF r.ok THEN "none" ELSE r.err]
    /\ UNCHANGED <<call, kept>>

Construct == \E c \in Classes : ConstructFrom(CallArgs(c))
ConstructAny == \E c \in Classes : ConstructFrom(CtorArgs(c))

\* obj.ip(h1, h2) on a RealIP: the instance is left alone
RealIPIp ==
    /\ pc = "ready"
    /\ self.cls = "RealIP"
    /\ \E h1 \in Operands(self), h2 \in Operands(self) :
         call' = [op |-> "ip", h1 |-> h1, h2 |-> h2, ret |-> RealIP_ip(self, h1, h2)]
    /\ UNCHANGED <<pc, self, ctor, kept>>

\* obj.norm(h) on a RealIP
RealIPNorm ==
    /\ pc = "ready"
    /\ self.cls = "RealIP"
    /\ \E h \in Operands(self) :
         call' = [op |-> "norm", h |-> h, ret |-> RealIP_norm(self, h)]
    /\ UNCHANGED <<pc, self, ctor, kept>>

\* obj.ip(h1, h2) on a HermitianComplexIP
HermitianComplexIPIp ==
    /\ pc = "ready"
    /\ self.cls = "HermitianComplexIP"
    /\ \E h1 \in Operands(self), h2 \in Operands(self) :
         call' = [op |-> "ip", h1 |-> h1, h2 |-> h2, ret |-> HermitianComplexIP_ip(self, h1, h2)]
    /\ UNCHANGED <<pc, self, ctor, kept>>

\* obj.norm(h) on a HermitianComplexIP
HermitianComplexIPNorm ==
    /\ pc = "ready"
    /\ self.cls = "HermitianComplexIP"
    /\ \E h \in Operands(self) :
         call' = [op |-> "norm", h |-> h, ret |-> HermitianComplexIP_norm(self, h)]
    /\ UNCHANGED <<pc, self, ctor, kept>>

\* obj.ip(h1, h2) on a ComplexIP
ComplexIPIp ==
    /\ pc = "ready"
    /\ self.cls = "ComplexIP"
    /\ \E h1 \in Operands(self), h2 \in Operands(self) :
         call' = [op |-> "ip", h1 |-> h1, h2 |-> h2, ret |-> ComplexIP_ip(self, h1, h2)]
    /\ UNCHANGED <<pc, self, ctor, kept>>

\* obj.norm(h) on a ComplexIP
ComplexIPNorm ==
    /\ pc = "ready"
    /\ self.cls = "ComplexIP"
    /\ \E h \in Operands(self) :
         call' = [op |-> "norm", h |-> h, ret |-> ComplexIP_norm(self, h)]
    /\ UNCHANGED <<pc, self, ctor, kept>>

\* obj.ip(h1, h2) on an Overlap: the scratch series intgd and ovlp are rewritten
OverlapIp ==
    /\ pc = "ready"
    /\ self.cls = "Overlap"
    /\ \E h1 \in Operands(self), h2 \in Operands(self) : \E r \in {Overlap_ip(self, h1, h2)} :
         /\ call' = [op |-> "ip", h1 |-> h1, h2 |-> h2, ret |-> r.ret]
         /\ self' = r.self
         /\ kept' = Held(kept, r.self.ovlp)
    /\ UNCHANGED <<pc, ctor>>

\* obj.norm(h) on an Overlap
OverlapNorm ==
    /\ pc = "ready"
    /\ self.cls = "Overlap"
    /\ \E h \in Operands(self) :
         call' = [op |-> "norm", h |-> h, ret |-> Overlap_norm(self, h)]
    /\ UNCHANGED <<pc, self, ctor, kept>>

\* obj.ip(h1, h2) on a ComplexOverlap: the scratch series are rewritten
ComplexOverlapIp ==
    /\ pc = "ready"
    /\ self.cls = "ComplexOverlap"
    /\ \E h1 \in Operands(self), h2 \in Operands(self) : \E r \in {ComplexOverlap_ip(self, h1, h2)} :
         /\ call' = [op |-> "ip", h1 |-> h1, h2 |-> h2, ret |-> r.ret]
         /\ self' = r.self
         /\ kept' = Held(kept, r.self.ovlp)
    /\ UNCHANGED <<pc, ctor>>

\* obj.norm(h) on a ComplexOverlap
ComplexOverlapNorm ==
    /\ pc = "ready"
    /\ self.cls = "ComplexOverlap"
    /\ \E h \in Operands(self) :
         call' = [op |-> "norm", h |-> h, ret |-> ComplexOverlap_norm(self, h)]
    /\ UNCHANGED <<pc, self, ctor, kept>>

\* obj.wrap_times() on an Overlap or a ComplexOverlap
WrapTimes ==
    /\ pc = "ready"
    /\ self.cls \in Maximized
    /\ call' = [op |-> "wrap_times", ret |-> Ok(wrap_times(self))]
    /\ UNCHANGED <<pc, self, ctor, kept>>

\* the caller keeps the series that the last ip returned (seen: its values
\* when it was returned)
KeepSeries ==
    /\ pc = "ready"
    /\ kept = NoSeries
    /\ call.op = "ip"
    /\ call.ret.ok
    /\ call.ret.val.type = "tuple"
    /\ kept' = [obj |-> call.ret.val.rhoTS.obj, seen |-> call.ret.val.rhoTS.data,
                data |-> call.ret.val.rhoTS.data]
    /\ UNCHANGED <<pc, self, ctor, call>>

Next ==
    \/ Construct
    \/ RealIPIp
    \/ RealIPNorm
    \/ HermitianComplexIPIp
    \/ HermitianComplexIPNorm
    \/ ComplexIPIp
    \/ ComplexIPNorm
    \/ OverlapIp
    \/ OverlapNorm
    \/ ComplexOverlapIp
    \/ ComplexOverlapNorm
    \/ WrapTimes
    \/ KeepSeries

Spec == Init /\ [][Next]_vars

\* construction alone, over the wide set of constructor calls
NextInit == ConstructAny
SpecInit == Init /\ [][NextInit]_vars

\* A call of a function of the module that takes no instance: the arguments
\* are drawn at the start, and the call then returns or raises
Pending == [ok |-> FALSE, err |-> "pending"]

SanitizeEtaCalls ==
    {[op |-> "sanitize_eta", eta |-> eta, tol |-> tol, exception |-> exception,
      ret |-> Pending] :
        eta \in EtaValues, tol \in TolValues, exception \in ExceptionValues}
UnwindPhaseCalls ==
    {[op |-> "unwind_phase", phase |-> phase, thresh |-> thresh, ret |-> Pending] :
        phase \in SeqsUpTo(PhaseValues, MaxPhases) \cup {<<>>}, thresh \in ThreshValues}

ChooseWaveformParamsCalls ==
    {[op |-> "ChooseWaveformParams", kw |-> kw, ret |-> Pending] :
        kw \in KwArgs \cup {[m1 |-> Quantity(RInt(2), "MSUN_SI"), detector |-> "L1"]}}
CopySimInspiralCalls ==
    {[op |-> "copy_sim_inspiral", P |-> P, row |-> SimRow(n), ret |-> Pending] :
        P \in Instances, n \in 1 .. NumRows}
CopyLsctablesCalls ==
    {[op |-> "copy_lsctables_sim_inspiral", P |-> P, row |-> FileRow(n), ret |-> Pending] :
        P \in Instances, n \in 1 .. NumRows}
XmlCalls ==
    {[op |-> "xml_to_ChooseWaveformParams_array", table |-> t, minrow |-> lo,
      maxrow |-> hi, kw |-> kw, ret |-> Pending] :
        t \in Tables, lo \in RowBounds, hi \in RowBounds, kw \in KwArgs}

SubscriptCalls ==
    {[op |-> "subscript", table |-> t, key |-> k, ret |-> Pending] :
        t \in DOMAIN TableNamed, k \in Elements(Types)}

InitUtil ==
    /\ pc = "new"
    /\ self = NoInstance
    /\ ctor = NoCall
    /\ kept = NoSeries
    /\ \/ call \in SanitizeEtaCalls
       \/ call \in UnwindPhaseCalls
       \/ call \in ChooseWaveformParamsCalls
       \/ call \in CopySimInspiralCalls
       \/ call \in CopyLsctablesCalls
       \/ call \in XmlCalls
       \/ call \in SubscriptCalls

\* sanitize_eta(eta, tol, exception) runs
SanitizeEta ==
    /\ call.op = "sanitize_eta"
    /\ call.ret = Pending
    /\ call' = [call EXCEPT !.ret = sanitize_eta(call.eta, call.tol, call.exception)]
    /\ UNCHANGED <<pc, self, ctor, kept>>

\* unwind_phase(phase, thresh) runs
UnwindPhase ==
    /\ call.op = "unwind_phase"
    /\ call.ret = Pending
    /\ call' = [call EXCEPT !.ret = unwind_phase(call.phase, call.thresh)]
    /\ UNCHANGED <<pc, self, ctor, kept>>

\* ChooseWaveformParams(**kw) returns the new instance
NewChooseWaveformParams ==
    /\ call.op = "ChooseWaveformParams"
    /\ call.ret = Pending
    /\ call' = [call EXCEPT !.ret = Ok(ChooseWaveformParams(call.kw))]
    /\ UNCHANGED <<pc, self, ctor, kept>>

\* P.copy_sim_inspiral(row) has filled P
CopySimInspiral ==
    /\ call.op = "copy_sim_inspiral"
    /\ call.ret = Pending
    /\ call' = [call EXCEPT !.P = copy_sim_inspiral(call.P, call.row), !.ret = Ok(PyNone)]
    /\ UNCHANGED <<pc, self, ctor, kept>>

\* P.copy_lsctables_sim_inspiral(row) has filled P
CopyLsctablesSimInspiral ==
    /\ call.op = "copy_lsctables_sim_inspiral"
    /\ call.ret = Pending
    /\ call' = [call EXCEPT !.P = copy_lsctables_sim_inspiral(call.P, call.row),
                            !.ret = Ok(PyNone)]
    /\ UNCHANGED <<pc, self, ctor, kept>>

\* xml_to_ChooseWaveformParams_array returns the instances or raises
XmlToChooseWaveformParamsArray ==
    /\ call.op = "xml_to_ChooseWaveformParams_array"
    /\ call.ret = Pending
    /\ call' = [call EXCEPT !.ret = xml_to_ChooseWaveformParams_array(
                                        call.table, call.minrow, call.maxrow, call.kw)]
    /\ UNCHANGED <<pc, self, ctor, kept>>

\* a type name of Types is looked up in one of the tables
SubscriptTable ==
    /\ call.op = "subscript"
    /\ call.ret = Pending
    /\ call' = [call EXCEPT !.ret = Subscript(TableNamed[call.table], call.key)]
    /\ UNCHANGED <<pc, self, ctor, kept>>

NextUtil ==
    \/ SubscriptTable
    \/ SanitizeEta
    \/ UnwindPhase
    \/ NewChooseWaveformParams
    \/ CopySimInspiral
    \/ CopyLsctablesSimInspiral
    \/ XmlToChooseWaveformParamsArray
SpecUtil == InitUtil /\ [][NextUtil]_vars

----------------------------------------------------------------------------
\* Properties.  Expected values are computed here from the constructor's
\* arguments and the operands, by formulas written out in real and
\* imaginary parts.

\* the band of the constructor call a: round(fLow/deltaF), round(fMax/deltaF)
BandTop(a) == IF a.fMax = None THEN a.fNyq ELSE a.fMax
BandLo(a) == PyRound(RDiv(a.fLow, a.deltaF))
BandHi(a) == PyRound(RDiv(BandTop(a), a.deltaF))

\* the PSD of the call a at bin i: S(i * deltaF)
PsdBin(a, i) ==
    IF a.psd.kind = "func" THEN PsdFn(a.psd.fn, RMul(RInt(i), a.deltaF))
    ELSE a.psd.data[i + 1]

\* |x - y| <= 1e-6
WithinTol(x, y) == RLeq(RAbs(RSub(x, y)), <<1, 1000000>>)

\* a constructor call whose arguments are acceptable apart from the values of
\* the PSD: the flag names the kind of the PSD, the band lies below fNyq, a
\* sampled PSD starts at 0, has the spacing deltaF and covers the band, and
\* no truncation is requested
WellFormed(a) ==
    /\ a.analyticPSD_Q = (IF a.psd.kind = "func" THEN "True" ELSE "False")
    /\ RLeq(BandTop(a), a.fNyq)
    /\ ~a.inv_spec_trunc_Q
    /\ a.psd.kind = "series" => a.psd.f0 = RZero /\ WithinTol(a.psd.deltaF, a.deltaF)
    /\ a.psd.kind # "func" =>
         RLeq(BandTop(a), RMul(RInt(Len(a.psd.data) - 1),
                               IF a.psd.kind = "series" THEN a.psd.deltaF ELSE a.deltaF))

\* the bins of the band at which the PSD is exactly zero
ZeroBins(a) == {i \in BandLo(a) .. (BandHi(a) - 1) : PsdBin(a, i) = RZero}

\* C1: a constructor call whose PSD (closed-form, series or array) is exactly
\* zero at a bin of [minIdx, maxIdx) succeeds, and that bin's weight is 0.
C1_ZeroBinGetsZeroWeight ==
    (pc # "new" /\ WellFormed(ctor.args) /\ ZeroBins(ctor.args) # {})
    => /\ pc = "ready"
       /\ \A i \in ZeroBins(ctor.args) : self.weights[i + 1] = RZero

\* the weight the band and the PSD of the call a give bin i
ExpectedWeight(a, i) ==
    IF BandLo(a) <= i /\ i < BandHi(a) /\ PsdBin(a, i) # RZero
    THEN RInv(PsdBin(a, i)) ELSE RZero

\* C2: constructed without truncation, weights[i] = 1/S(i*deltaF) for
\* minIdx <= i < maxIdx where S is not zero and 0 at every other index, with
\* minIdx = round(fLow/deltaF) and maxIdx = round(fMax/deltaF).
C2_WeightsFromPsd ==
    (pc = "ready" /\ ~ctor.args.inv_spec_trunc_Q)
    => /\ self.minIdx = BandLo(ctor.args)
       /\ self.maxIdx = BandHi(ctor.args)
       /\ \A i \in 0 .. (Len(self.weights) - 1) :
            self.weights[i + 1] = ExpectedWeight(ctor.args, i)

\* an instance built from an array PSD whose band starts above bin 0 and
\* holds both a zero bin and a bin of weight other than 0 and 1
C2_Witness ==
    /\ pc = "ready"
    /\ ~ctor.args.inv_spec_trunc_Q
    /\ ctor.args.psd.kind = "array"
    /\ self.minIdx >= 1
    /\ \E i \in self.minIdx .. (self.maxIdx - 1) : PsdBin(ctor.args, i) = RZero
    /\ \E i \in self.minIdx .. (self.maxIdx - 1) : self.weights[i + 1] \notin {RZero, ROne}

\* C3: the one-sided weights have length floor(fNyq/deltaF) + 1 and the
\* two-sided weights length 2 * (one-sided length - 1), in every state of a
\* constructed instance, after any calls of ip and norm.
C3_WeightLengths ==
    pc = "ready"
    => /\ Len(self.weights) = (RDiv(self.fNyq, self.deltaF)[1] \div RDiv(self.fNyq, self.deltaF)[2]) + 1
       /\ Len(self.weights2side) = 2 * (Len(self.weights) - 1)

\* an Overlap instance whose fNyq/deltaF is not an integer, after an ip call
\* that rewrote its scratch series
C3_Witness ==
    /\ pc = "ready"
    /\ self.cls = "Overlap"
    /\ RDiv(self.fNyq, self.deltaF)[2] # 1
    /\ call.op = "ip"
    /\ call.ret.ok
    /\ Len(self.weights) = 3
    /\ self.intgd # Array([k \in 1 .. 4 |-> ctor.args.scratch], 4)

\* C4: for one-sided weights w of length N the two-sided weights w2 have
\* length 2N - 2, w2[N-1+k] = w2[N-1-k] = w[k] for 0 <= k < N - 1, and
\* w2[0] = w[N-1].
C4_Mirrored ==
    pc = "ready"
    => /\ Len(self.weights2side) = 2 * Len(self.weights) - 2
       /\ \A k \in 0 .. (Len(self.weights) - 2) :
            /\ self.weights2side[Len(self.weights) - 1 + k + 1] = self.weights[k + 1]
            /\ self.weights2side[Len(self.weights) - 1 - k + 1] = self.weights[k + 1]
       /\ self.weights2side[1] = self.weights[Len(self.weights)]

\* an instance with three one-sided weights, all different and not zero
C4_Witness ==
    /\ pc = "ready"
    /\ Len(self.weights) = 3
    /\ self.weights[1] # self.weights[2]
    /\ self.weights[2] # self.weights[3]
    /\ self.weights[1] # self.weights[3]
    /\ self.weights[3] # RZero
    /\ Len(self.weights2side) = 4

\* C5: ip succeeds only if h1.deltaF and h2.deltaF are within 1e-6 of each
\* other and each of them is within 1e-6 of the instance's deltaF.
C5_EveryDeltaFWithinTol ==
    (pc = "ready" /\ call.op = "ip" /\ call.ret.ok)
    => /\ WithinTol(call.h1.deltaF, call.h2.deltaF)
       /\ WithinTol(call.h1.deltaF, self.deltaF)
       /\ WithinTol(call.h2.deltaF, self.deltaF)

\* the length a class expects of its operands: that of its weight array
ExpectedLen ==
    IF self.cls \in {"RealIP", "HermitianComplexIP", "Overlap"} THEN Len(self.weights)
    ELSE Len(self.weights2side)

\* C6: ip fails when h1 or h2 has not the length of the class's weight array
\* (one-sided for RealIP, HermitianComplexIP and Overlap, two-sided for
\* ComplexIP and ComplexOverlap), and so does norm for such an h.
C6_WrongLengthRejected ==
    pc = "ready"
    => /\ (call.op = "ip" /\ (Len(call.h1.data) # ExpectedLen \/ Len(call.h2.data) # ExpectedLen))
            => ~call.ret.ok
       /\ (call.op = "norm" /\ Len(call.h.data) # ExpectedLen) => ~call.ret.ok

\* a norm call of a one-sided class with a series of the two-sided length
C6_Witness ==
    /\ pc = "ready"
    /\ self.cls = "HermitianComplexIP"
    /\ call.op = "norm"
    /\ Len(call.h.data) = Len(self.weights2side)
    /\ Len(call.h.data) # Len(self.weights)
    /\ WithinTol(call.h.deltaF, self.deltaF)
    /\ call.ret = Raise("AssertionError")

\* the real and imaginary parts of conj(x) * y
ConjTimesRe(x, y) == RAdd(RMul(x.re, y.re), RMul(x.im, y.im))
ConjTimesIm(x, y) == RSub(RMul(x.re, y.im), RMul(x.im, y.re))

\* the sum over the bins 1 .. n of w * Re(conj(x) y) and of w * Im(conj(x) y)
RECURSIVE SumRe(_, _, _, _)
SumRe(x, y, w, n) ==
    IF n = 0 THEN RZero
    ELSE RAdd(SumRe(x, y, w, n - 1), RMul(w[n], ConjTimesRe(x[n], y[n])))
RECURSIVE SumIm(_, _, _, _)
SumIm(x, y, w, n) ==
    IF n = 0 THEN RZero
    ELSE RAdd(SumIm(x, y, w, n - 1), RMul(w[n], ConjTimesIm(x[n], y[n])))

\* the last call was ip on operands of n bins with every deltaF in tolerance
ValidIp(n) ==
    /\ pc = "ready"
    /\ call.op = "ip"
    /\ Len(call.h1.data) = n
    /\ Len(call.h2.data) = n
    /\ WithinTol(call.h1.deltaF, call.h2.deltaF)
    /\ WithinTol(call.h1.deltaF, self.deltaF)
    /\ WithinTol(call.h2.deltaF, self.deltaF)

\* c * deltaF * x
Scaled(c, x) == RMul(RMul(RInt(c), self.deltaF), x)

\* C7: RealIP.ip on valid operands returns the real number
\* 4 * deltaF * Re(sum over the one-sided bins of conj(h1) * h2 * weights).
C7_RealIP ==
    (self.cls = "RealIP" /\ ValidIp(Len(self.weights)))
    => /\ call.ret.ok
       /\ call.ret.val.type = "real"
       /\ call.ret.val.val =
            [pow |-> 0,
             rad |-> Scaled(4, SumRe(call.h1.data, call.h2.data, self.weights,
                                     Len(self.weights)))]

\* a RealIP product of two different series over three bins, not zero
C7_Witness ==
    /\ self.cls = "RealIP"
    /\ ValidIp(3)
    /\ call.h1.data # call.h2.data
    /\ call.ret.ok
    /\ call.ret.val.val.rad # RZero
    /\ self.weights[2] \notin {RZero, ROne}

ValidNorm(n) ==
    /\ pc = "ready"
    /\ call.op = "norm"
    /\ Len(call.h.data) = n
    /\ WithinTol(call.h.deltaF, self.deltaF)

\* |ip(h, h)| computed by the instance
AbsSelfIp(h) ==
    CASE self.cls = "RealIP" -> [pow |-> 0, rad |-> RAbs(RealIP_ip(self, h, h).val.val.rad)]
      [] self.cls = "HermitianComplexIP" -> NpAbs(HermitianComplexIP_ip(self, h, h).val.val)
      [] self.cls = "ComplexIP" -> NpAbs(ComplexIP_ip(self, h, h).val.val)

\* C10: for RealIP, HermitianComplexIP and ComplexIP and a valid h, norm(h)
\* is real and not negative, and norm(h)^2 = |ip(h, h)| of the same instance.
C10_NormSquared ==
    (self.cls \in {"RealIP", "HermitianComplexIP", "ComplexIP"} /\ ValidNorm(ExpectedLen))
    => /\ call.ret.ok
       /\ call.ret.val.type = "real"
       /\ call.ret.val.val # NaN
       /\ call.ret.val.val.rad[1] >= 0
       /\ RadSquare(call.ret.val.val) = AbsSelfIp(call.h)

\* a ComplexIP norm that is not zero and not rational
C10_Witness ==
    /\ self.cls = "ComplexIP"
    /\ ValidNorm(4)
    /\ call.ret.ok
    /\ call.ret.val.val.pow >= 1
    /\ self.weights2side[1] # self.weights2side[3]

\* every weight of w is >= 0
NonNegative(w) == \A k \in 1 .. Len(w) : RLeq(RZero, w[k])

\* C11: for RealIP and HermitianComplexIP with non-negative weights, ip(h, h)
\* of a valid h has no imaginary part: RealIP returns a real number and the
\* complex number HermitianComplexIP returns has imaginary part 0.
C11_SelfProductIsReal ==
    (/\ self.cls \in {"RealIP", "HermitianComplexIP"}
     /\ ValidIp(Len(self.weights))
     /\ call.h1 = call.h2
     /\ NonNegative(self.weights))
    => /\ call.ret.ok
       /\ self.cls = "RealIP" => call.ret.val.type = "real"
       /\ self.cls = "HermitianComplexIP" => call.ret.val.val.im = RZero

\* HermitianComplexIP.ip(h, h) over three bins, where h has a bin of weight
\* other than 0 whose real and imaginary parts are both other than 0
C11_Witness ==
    /\ self.cls = "HermitianComplexIP"
    /\ ValidIp(3)
    /\ call.h1 = call.h2
    /\ NonNegative(self.weights)
    /\ \E k \in 1 .. 3 :
         /\ self.weights[k] # RZero
         /\ call.h1.data[k].re # RZero
         /\ call.h1.data[k].im # RZero
    /\ call.ret.ok
    /\ call.ret.val.val.re # RZero

\* C12: with full_output the series that Overlap.ip and ComplexOverlap.ip
\* return is an object of its own, not the instance's scratch series: after
\* any later calls on the instance a series returned earlier still holds the
\* values it was returned with.
C12_ReturnedSeriesKept ==
    kept # NoSeries => kept.obj # "self.ovlp" /\ kept.data = kept.seen

\* the caller holds a series of an earlier ip, and a later ip on the same
\* instance has returned and left other values in the scratch series
C12_Witness ==
    /\ pc = "ready"
    /\ kept # NoSeries
    /\ call.op = "ip"
    /\ call.ret.ok
    /\ self.ovlp # kept.seen
    /\ call.ret.val.rhoTS.data = self.ovlp
    /\ kept.data = kept.seen

\* C13: after every Overlap.ip(h1, h2) that returns, with N the one-sided
\* length, the integrand series has length 2N - 2 and holds 0 at the indices
\* 0 .. N-2 and 4 * conj(h1[k]) * h2[k] * weights[k] at index N-1+k for k in
\* 0 .. N-2: nothing of an earlier call or of the initial content is left.
C13_Integrand ==
    (pc = "ready" /\ self.cls = "Overlap" /\ call.op = "ip" /\ call.ret.ok)
    => /\ Len(self.intgd) = 2 * Len(self.weights) - 2
       /\ \A i \in 0 .. (Len(self.weights) - 2) : self.intgd[i + 1] = CZero
       /\ \A k \in 0 .. (Len(self.weights) - 2) :
            self.intgd[Len(self.weights) - 1 + k + 1] =
                Cx(RMul(RInt(4), RMul(self.weights[k + 1],
                                      ConjTimesRe(call.h1.data[k + 1], call.h2.data[k + 1]))),
                   RMul(RInt(4), RMul(self.weights[k + 1],
                                      ConjTimesIm(call.h1.data[k + 1], call.h2.data[k + 1]))))

\* an Overlap of one-sided length 3 whose scratch series held other values
\* at construction, after an ip that left two entries other than 0 in the
\* integrand and that followed an ip with another result
C13_Witness ==
    /\ pc = "ready"
    /\ self.cls = "Overlap"
    /\ call.op = "ip"
    /\ call.ret.ok
    /\ Len(self.weights) = 3
    /\ ctor.args.scratch # CZero
    /\ self.intgd[3] # CZero
    /\ self.intgd[4] # CZero
    /\ kept # NoSeries
    /\ kept.seen # self.ovlp

\* the radical rho is the largest magnitude of the series x
IsMaxAbs(rho, x) ==
    /\ \E i \in 1 .. Len(x) : NpAbs(x[i]) = rho
    /\ \A i \in 1 .. Len(x) : ~RadLt(rho, NpAbs(x[i]))

\* C14: ip of Overlap and ComplexOverlap returns rho, the largest magnitude
\* of the overlap series.  With full_output it returns (rho, series, idx,
\* phase) where |series[idx]| = rho, rho >= |series[i]| for every i and phase
\* is the argument of series[idx]; without it the number rho alone.
C14_MaxOfSeries ==
    (pc = "ready" /\ self.cls \in Maximized /\ call.op = "ip" /\ call.ret.ok)
    => IF ctor.args.full_output
       THEN /\ call.ret.val.type = "tuple"
            /\ call.ret.val.rhoTS.data = self.ovlp
            /\ IsMaxAbs(call.ret.val.rho, self.ovlp)
            /\ call.ret.val.rhoIdx \in 0 .. (Len(self.ovlp) - 1)
            /\ NpAbs(self.ovlp[call.ret.val.rhoIdx + 1]) = call.ret.val.rho
            /\ call.ret.val.rhoPhase = NpAngle(self.ovlp[call.ret.val.rhoIdx + 1])
       ELSE /\ call.ret.val.type = "real"
            /\ IsMaxAbs(call.ret.val.val, self.ovlp)

\* an ip with full_output whose overlap series has four entries, its largest
\* magnitude past index 0 and at an entry that is not real
C14_Witness ==
    /\ pc = "ready"
    /\ self.cls \in Maximized
    /\ call.op = "ip"
    /\ call.ret.ok
    /\ ctor.args.full_output
    /\ Len(self.ovlp) = 4
    /\ call.ret.val.rhoIdx > 0
    /\ self.ovlp[call.ret.val.rhoIdx + 1].im # RZero
    /\ \E i \in 1 .. 4 : RadLt(NpAbs(self.ovlp[i]), call.ret.val.rho)

\* the sum over the bins 1 .. n of w * |x|^2
SumSq(x, w, n) == SumRe(x, x, w, n)

\* the last call was Overlap.ip(h, h) with a valid h, on non-negative weights
SelfOverlap ==
    /\ self.cls = "Overlap"
    /\ ValidIp(Len(self.weights))
    /\ call.h1 = call.h2
    /\ NonNegative(self.weights)

\* what Overlap.ip returned as the maximum
RhoOf(ret) == IF ret.val.type = "tuple" THEN ret.val.rho ELSE ret.val.val

\* C15: Overlap.ip(h, h) on non-negative weights has its maximum at index 0
\* (idx = 0 with full_output), and the maximum is norm(h)^2 =
\* 4 * deltaF * (sum over all the one-sided bins of |h[i]|^2 * weights[i]).
C15_SelfOverlapIsNormSquared ==
    SelfOverlap
    => /\ call.ret.ok
       /\ ctor.args.full_output => call.ret.val.rhoIdx = 0
       /\ RhoOf(call.ret) =
            FromRat(Scaled(4, SumSq(call.h1.data, self.weights, Len(self.weights))))
       /\ RadSquare(Overlap_norm(self, call.h1).val.val) = RhoOf(call.ret)

\* the last call was wrap_times
WrapTimesCalled ==
    /\ pc = "ready"
    /\ self.cls \in Maximized
    /\ call.op = "wrap_times"

\* i * deltaT and -(n - i) * deltaT
Later(i) == RMul(RInt(i), self.deltaT)
Earlier(i, n) == RNeg(RMul(RInt(n - i), self.deltaT))

\* wrap_times returned n values, 0 first, the offsets up to index last
\* counted forward and those after it counted back from n
WrappedAfter(last, n) ==
    /\ call.ret.ok
    /\ Len(call.ret.val) = n
    /\ call.ret.val[1] = RZero
    /\ \A i \in 0 .. (n - 1) :
         call.ret.val[i + 1] = IF i <= last THEN Later(i) ELSE Earlier(i, n)

\* C16 as stated: wrap_times() of an Overlap or ComplexOverlap of two-sided
\* length N returns N values, element 0 is 0, element i is +i * deltaT for
\* 0 <= i <= N/2 - 1 and -(N - i) * deltaT for N/2 <= i <= N - 1.
C16_WrapsFromHalf ==
    WrapTimesCalled
    => WrappedAfter((Len(self.weights2side) \div 2) - 1, Len(self.weights2side))

\* C16 as the code has it: wrap_times() returns N values, element 0 is 0,
\* element i is +i * deltaT for 0 <= i <= N/2 (the index N/2 included) and
\* -(N - i) * deltaT for N/2 + 1 <= i <= N - 1.
C16_WrapsPastHalf ==
    WrapTimesCalled
    => WrappedAfter(Len(self.weights2side) \div 2, Len(self.weights2side))

\* wrap_times() on an instance of two-sided length 4: the offset at index 2
\* is positive and the one at index 3 negative
C16_Witness ==
    /\ WrapTimesCalled
    /\ Len(self.weights2side) = 4
    /\ self.deltaT # RZero
    /\ call.ret.val[3] = Later(2)
    /\ call.ret.val[4] = Earlier(3, 4)
    /\ RLt(RZero, call.ret.val[3])
    /\ RLt(call.ret.val[4], RZero)

\* the configuration of the instance s
Config(s) ==
    <<s.fLow, s.fMax, s.fNyq, s.deltaF, s.minIdx, s.maxIdx, s.len1side, s.len2side,
      s.weights, s.weights2side>>

\* C17: after construction no call of ip, norm or wrap_times, whether it
\* returns or raises, changes fLow, fMax, fNyq, deltaF, minIdx, maxIdx,
\* len1side, len2side, weights or weights2side; only the scratch series of
\* Overlap and ComplexOverlap may change.
C17_ConfigImmutable ==
    [][pc = "ready"
       => /\ pc' = "ready"
          /\ Config(self') = Config(self)
          /\ self.cls \notin Maximized => self' = self
          /\ self.cls \in Maximized
               => self' = [self EXCEPT !.intgd = self'.intgd, !.ovlp = self'.ovlp]]_vars

\* an Overlap or ComplexOverlap whose scratch series an ip has rewritten and
\* whose last call raised
C17_Witness ==
    /\ pc = "ready"
    /\ self.cls \in Maximized
    /\ \E k \in 1 .. Len(self.intgd) : self.intgd[k] # ctor.args.scratch
    /\ \E k \in 1 .. Len(self.ovlp) : self.ovlp[k] # ctor.args.scratch
    /\ call.op \in {"ip", "norm"}
    /\ ~call.ret.ok
    /\ \E k \in 1 .. Len(self.weights) : self.weights[k] # RZero

\* the instance s with its scratch series as the constructor left them
AsConstructed(s) ==
    [s EXCEPT !.intgd = Array([k \in 1 .. s.len2side |-> ctor.args.scratch], s.len2side),
              !.ovlp = Array([k \in 1 .. s.len2side |-> ctor.args.scratch], s.len2side)]

\* what ip(h1, h2) returns on the instance s
IpOn(s, h1, h2) ==
    IF s.cls = "Overlap" THEN Overlap_ip(s, h1, h2).ret ELSE ComplexOverlap_ip(s, h1, h2).ret

\* C18: an Overlap.ip or ComplexOverlap.ip that fails its check of the
\* lengths or of deltaF raises before it writes: it returns no value and
\* leaves the integrand and overlap series (and the instance as a whole) as
\* they were, and the ip that returns next returns what it returns on the
\* instance as it was constructed.
C18_FailedIpWritesNothing ==
    [][/\ (pc = "ready" /\ self.cls \in Maximized /\ call'.op = "ip" /\ ~call'.ret.ok)
          => /\ call'.ret = Raise("AssertionError")
             /\ self'.intgd = self.intgd
             /\ self'.ovlp = self.ovlp
             /\ self' = self
             /\ kept' = kept
       /\ (/\ pc = "ready"
           /\ self.cls \in Maximized
           /\ call.op = "ip"
           /\ ~call.ret.ok
           /\ call'.op = "ip"
           /\ call'.ret.ok)
          => call'.ret = IpOn(AsConstructed(self), call'.h1, call'.h2)]_vars

\* an ip on operands of the right length whose deltaF is out of tolerance
\* has raised, on an Overlap whose scratch series an earlier ip had rewritten
C18_Witness ==
    /\ pc = "ready"
    /\ self.cls = "Overlap"
    /\ call.op = "ip"
    /\ call.ret = Raise("AssertionError")
    /\ Len(call.h1.data) = Len(self.weights)
    /\ Len(call.h2.data) = Len(self.weights)
    /\ ~WithinTol(call.h1.deltaF, call.h2.deltaF)
    /\ \E k \in 1 .. Len(self.intgd) : self.intgd[k] \notin {CZero, ctor.args.scratch}
    /\ ctor.args.scratch # CZero

\* the constructor call raised an assertion error and yielded no instance
CtorRejected == pc = "failed" /\ self = NoInstance /\ ctor.err = "AssertionError"

\* the constructor was called with the sampled PSD of L samples as such
SampledCall ==
    /\ pc # "new"
    /\ ctor.args.psd.kind # "func"
    /\ ctor.args.analyticPSD_Q = "False"

\* C19 as stated: the constructor raises and yields no instance whenever
\* fMax > fNyq, and, given a sampled PSD (a series or an array) of L samples,
\* whenever fMax > (L - 1) * deltaF.
C19_BandBeyondRejected ==
    /\ (pc # "new" /\ RLt(ctor.args.fNyq, BandTop(ctor.args))) => CtorRejected
    /\ (/\ SampledCall
        /\ RLt(RMul(RInt(Len(ctor.args.psd.data) - 1), ctor.args.deltaF),
               BandTop(ctor.args)))
       => CtorRejected

\* the highest frequency a sampled PSD covers: (L - 1) times the spacing of
\* its bins, which for a series is the series' own deltaF
PsdExtent(a) ==
    RMul(RInt(Len(a.psd.data) - 1),
         IF a.psd.kind = "series" THEN a.psd.deltaF ELSE a.deltaF)

\* C19 as the code has it: the constructor raises and yields no instance
\* whenever fMax > fNyq, and, given a sampled PSD of L samples, whenever
\* fMax > (L - 1) * (the spacing of the PSD's bins): the deltaF of the series
\* itself for a series, the configured deltaF for an array.
C19_BeyondPsdExtentRejected ==
    /\ (pc # "new" /\ RLt(ctor.args.fNyq, BandTop(ctor.args))) => CtorRejected
    /\ (SampledCall /\ RLt(PsdExtent(ctor.args), BandTop(ctor.args))) => CtorRejected

\* a constructor call below fNyq with a series PSD whose spacing is within
\* tolerance of deltaF but not equal to it, whose band would index only bins
\* the series has, and whose fMax is past the extent of the series
C19_Witness ==
    /\ SampledCall
    /\ CtorRejected
    /\ ctor.args.psd.kind = "series"
    /\ ctor.args.psd.f0 = RZero
    /\ ctor.args.psd.deltaF # ctor.args.deltaF
    /\ WithinTol(ctor.args.psd.deltaF, ctor.args.deltaF)
    /\ ~ctor.args.inv_spec_trunc_Q
    /\ RLeq(BandTop(ctor.args), ctor.args.fNyq)
    /\ RLt(PsdExtent(ctor.args), BandTop(ctor.args))
    /\ BandHi(ctor.args) <= Len(ctor.args.psd.data)

\* int(T_spec / deltaT) with deltaT = 1 / (2 * fNyq), and len2side / 2 with
\* len2side = 2 * floor(fNyq / deltaF), for the constructor call a
SpecSamples(a) == PyInt(RMul(a.T_spec, RMul(RInt(2), a.fNyq)))
HalfLength(a) == RDiv(a.fNyq, a.deltaF)[1] \div RDiv(a.fNyq, a.deltaF)[2]

\* C20: a constructor call with inverse-spectrum truncation enabled and
\* int(T_spec / deltaT) >= len2side / 2, where deltaT = 1 / (2 * fNyq), raises
\* and yields no instance.
C20_LongTruncationRejected ==
    (/\ pc # "new"
     /\ ctor.args.inv_spec_trunc_Q
     /\ SpecSamples(ctor.args) >= HalfLength(ctor.args))
    => pc = "failed" /\ self = NoInstance /\ ctor.err # "none"

\* a constructor call that truncation alone makes fail, with T_spec exactly
\* half the two-sided duration of an instance of two-sided length 4
C20_Witness ==
    /\ pc = "failed"
    /\ ctor.err = "AssertionError"
    /\ ctor.args.inv_spec_trunc_Q
    /\ HalfLength(ctor.args) = 2
    /\ SpecSamples(ctor.args) = 2
    /\ NewInstance([ctor.args EXCEPT !.inv_spec_trunc_Q = FALSE]).ok

\* the weights and the leading constant of the class of the instance
IpWeights == IF self.cls = "ComplexIP" THEN self.weights2side ELSE self.weights
IpConstant == IF self.cls = "ComplexIP" THEN 2 ELSE 4

\* C25: as the class docstrings have it, HermitianComplexIP.ip(h1, h2) and
\* ComplexIP.ip(h1, h2) return c * deltaF * (sum of h1[i] * conj(h2[i]) * w[i])
\* with c = 4 and c = 2: the second argument is the one conjugated.
C25_SecondConjugated ==
    (self.cls \in {"HermitianComplexIP", "ComplexIP"} /\ ValidIp(Len(IpWeights)))
    => /\ call.ret.ok
       /\ call.ret.val.val.re =
            Scaled(IpConstant, SumRe(call.h2.data, call.h1.data, IpWeights, Len(IpWeights)))
       /\ call.ret.val.val.im =
            Scaled(IpConstant, SumIm(call.h2.data, call.h1.data, IpWeights, Len(IpWeights)))

\* C29: what Overlap.ip(h1, h2) or ComplexOverlap.ip(h1, h2) returns depends
\* only on h1, h2 and the configuration of the instance: whatever calls came
\* before, it is what the same call returns on the instance as constructed.
C29_IpIgnoresEarlierCalls ==
    (pc = "ready" /\ self.cls \in Maximized /\ call.op = "ip" /\ call.ret.ok)
    => call.ret = IpOn(AsConstructed(self), call.h1, call.h2)

\* the caller holds the series of an earlier ip of the instance, and a later
\* ip on other operands has returned another series
C29_Witness ==
    /\ pc = "ready"
    /\ self.cls \in Maximized
    /\ kept # NoSeries
    /\ call.op = "ip"
    /\ call.ret.ok
    /\ call.ret.val.type = "tuple"
    /\ call.ret.val.rhoTS.data # kept.seen

\* the constructor call a has deltaF > 0 and 0 <= fLow <= fMax <= fNyq, and
\* a sampled PSD of L samples given as such has fMax <= (L - 1) * deltaF
BandInRange(a) ==
    /\ RLt(RZero, a.deltaF)
    /\ RLeq(RZero, a.fLow)
    /\ RLeq(a.fLow, BandTop(a))
    /\ RLeq(BandTop(a), a.fNyq)
    /\ (a.psd.kind # "func" /\ a.analyticPSD_Q = "False")
         => RLeq(BandTop(a), RMul(RInt(Len(a.psd.data) - 1), a.deltaF))

\* C30: a constructor call with deltaF > 0, 0 <= fLow <= fMax <= fNyq and,
\* for a sampled PSD of L samples, fMax <= (L - 1) * deltaF, reads and writes
\* only at indices i with 0 <= i < len1side and, in the PSD, 0 <= i < L:
\* round(fMax/deltaF) is at most floor(fNyq/deltaF) + 1 and no access is out
\* of range.
C30_IndicesInRange ==
    (pc # "new" /\ BandInRange(ctor.args))
    => /\ ctor.err # "IndexError"
       /\ BandLo(ctor.args) >= 0
       /\ BandHi(ctor.args) <= HalfLength(ctor.args) + 1
       /\ pc = "ready"
            => \A i \in self.minIdx .. (self.maxIdx - 1) :
                 /\ 0 <= i /\ i < self.len1side /\ i < Len(self.weights)
                 /\ (ctor.args.psd.kind # "func" /\ ctor.args.analyticPSD_Q = "False")
                      => i < Len(ctor.args.psd.data)

\* an instance built from a sampled PSD whose band ends at the Nyquist bin,
\* with round(fMax/deltaF) = floor(fNyq/deltaF) + 1 = L - 1
C30_Witness ==
    /\ pc = "ready"
    /\ BandInRange(ctor.args)
    /\ ctor.args.psd.kind # "func"
    /\ ctor.args.analyticPSD_Q = "False"
    /\ self.maxIdx = HalfLength(ctor.args) + 1
    /\ self.maxIdx = Len(ctor.args.psd.data) - 1
    /\ \E i \in self.minIdx .. (self.maxIdx - 1) : self.weights[i + 1] # RZero

\* the indices of a buffer of len2 samples that the window of N_spec samples
\* does not set to zero
WindowKept(len2, N_spec) ==
    {i \in 0 .. (len2 - 1) :
       ZeroMiddle([j \in 1 .. len2 |-> ROne], len2, N_spec)[i + 1] # RZero}

\* the window keeps the indices below n/2 and from len2 - n/2 on, n of them
KeepsEnds(len2, n) ==
    /\ WindowKept(len2, n) =
         {i \in 0 .. (len2 - 1) : i < n \div 2 \/ i >= len2 - n \div 2}
    /\ Cardinality(WindowKept(len2, n)) = n

\* C26: when the constructor truncates the inverse spectrum, with
\* N_spec = int(T_spec/deltaT) < len2side/2, the samples the window leaves
\* are those at the indices i < N_spec/2 or i >= len2side - N_spec/2, and they
\* are N_spec in number, whether N_spec is even or odd.
C26_WindowKeepsNSpec ==
    (/\ pc = "ready"
     /\ ctor.args.inv_spec_trunc_Q
     /\ IsNotZeroObj(ctor.args.T_spec, ctor.args.sameObj))
    => KeepsEnds(self.len2side, SpecSamples(ctor.args))

\* the last call was sanitize_eta
SanitizeCalled == call.op = "sanitize_eta" /\ call.ret # Pending

\* eta lies in the closed interval [lo, hi], and in the interval (lo, hi]
Within(eta, lo, hi) == RLeq(lo, eta) /\ RLeq(eta, hi)
AboveWithin(eta, lo, hi) == RLt(lo, eta) /\ RLeq(eta, hi)

\* what the docstring of sanitize_eta lists for the call made: eta in
\* [tol, 0.25] is returned, eta in [0, tol] gives tol, eta in (0.25, 0.25+tol]
\* gives 0.25, eta < 0 or eta > 0.25+tol raises ValueError if exception is
\* 'error' and returns exception if not, and a result for an eta of
\* [0, 0.25+tol] lies in [tol, 0.25]
AsDocumented ==
    /\ Within(call.eta, call.tol, MAX) => call.ret = Ok(Float(call.eta))
    /\ Within(call.eta, MIN, call.tol) => call.ret = Ok(Float(call.tol))
    /\ AboveWithin(call.eta, MAX, RAdd(MAX, call.tol)) => call.ret = Ok(Float(MAX))
    /\ (RLt(call.eta, MIN) \/ RLt(RAdd(MAX, call.tol), call.eta))
         => call.ret = (IF call.exception = Str("error") THEN Raise("ValueError")
                        ELSE Ok(call.exception))
    /\ Within(call.eta, MIN, RAdd(MAX, call.tol))
         => call.ret.ok /\ call.ret.val.type = "float"
            /\ Within(call.ret.val.val, call.tol, MAX)

\* C22, for a tolerance of [0, 0.25] (the tolerances for which the intervals
\* of the docstring are intervals): sanitize_eta returns eta for eta in
\* [tol, 0.25], tol for eta in [0, tol], 0.25 for eta in (0.25, 0.25+tol],
\* and for eta < 0 or eta > 0.25+tol raises ValueError if exception is
\* 'error' and returns exception if not; every result for an eta of
\* [0, 0.25+tol] is a number of [tol, 0.25].
C22_Sanitized ==
    (SanitizeCalled /\ Within(call.tol, MIN, MAX)) => AsDocumented

\* an eta above 0.25 but within the tolerance has been pushed back to 0.25
C22_Witness ==
    /\ SanitizeCalled
    /\ RLt(RZero, call.tol)
    /\ RLt(call.tol, MAX)
    /\ AboveWithin(call.eta, MAX, RAdd(MAX, call.tol))
    /\ call.ret = Ok(Float(MAX))

\* the phase changes by at most pi/4 a sample, modulo the period
SmoothModPeriod(phase) ==
    \A i \in 1 .. (Len(phase) - 1) :
       (phase[i + 1] - phase[i]) % TWO_PI \in {0, 1, TWO_PI - 1}

\* every step from a sample of x to the next is below thresh in magnitude
StepsBelow(x, thresh) ==
    \A i \in 1 .. (Len(x) - 1) : RLt(RInt(IAbs(x[i + 1] - x[i])), thresh)

\* C27: unwind_phase(phase, thresh) returns an array of the length of phase
\* that starts with phase[0] and differs from phase by multiples of the
\* period, and after a wrap in either direction the output does not jump:
\* for a phase that is smooth modulo the period every step of the output is
\* below thresh.
C27_UnwoundIsSmooth ==
    (call.op = "unwind_phase" /\ call.ret # Pending /\ Len(call.phase) > 0)
    => /\ call.ret.ok
       /\ Len(call.ret.val) = Len(call.phase)
       /\ call.ret.val[1] = call.phase[1]
       /\ \A i \in 1 .. Len(call.phase) : (call.ret.val[i] - call.phase[i]) % TWO_PI = 0
       /\ SmoothModPeriod(call.phase) => StepsBelow(call.ret.val, call.thresh)

\* the fields of ChooseWaveformParams that a SimInspiral table does not hold
NotInTable(P) ==
    <<P.deltaT, P.deltaF, P.fref, P.fmax, P.lambda1, P.lambda2, P.waveFlags,
      P.nonGRparams, P.detector>>

\* C24: copy_sim_inspiral(row) and copy_lsctables_sim_inspiral(row) leave the
\* fields deltaT, deltaF, fref, fmax, lambda1, lambda2, waveFlags, nonGRparams
\* and detector of the instance as they were, whatever the row holds.
C24_CopyKeepsOtherFields ==
    [][call.op \in {"copy_sim_inspiral", "copy_lsctables_sim_inspiral"}
       => NotInTable(call'.P) = NotInTable(call.P)]_vars

\* a row read from a file has been copied into an instance whose nine
\* fields all differ from the defaults, and the row's fields have arrived
C24_Witness ==
    /\ call.op = "copy_lsctables_sim_inspiral"
    /\ call.ret # Pending
    /\ \A i \in 1 .. 9 : NotInTable(call.P)[i] # NotInTable(ChooseWaveformParams(<<>>))[i]
    /\ call.P.fmin = call.row.f_lower
    /\ call.P.fmin # call.P.fref
    /\ call.P.radec
    /\ call.P.approx = "TaylorT2"

\* xml_to_ChooseWaveformParams_array has run on a file with a table
XmlCalled ==
    /\ call.op = "xml_to_ChooseWaveformParams_array"
    /\ call.ret # Pending
    /\ call.table.present

\* the call returned hi - lo instances, the k-th filled from row lo + k
ReturnsRows(lo, hi) ==
    /\ call.ret.ok
    /\ Len(call.ret.val) = hi - lo
    /\ \A k \in 0 .. (hi - lo - 1) :
         call.ret.val[k + 1] =
             copy_lsctables_sim_inspiral(ChooseWaveformParams(XmlArgs(call.kw)),
                                         call.table.rows[lo + k + 1])

\* C23: xml_to_ChooseWaveformParams_array with integers minrow and maxrow,
\* 0 <= minrow <= maxrow <= the length of the table, returns maxrow - minrow
\* instances, the k-th filled from row minrow + k; the whole table is
\* converted only when minrow and maxrow are not given.
C23_RowsOfRange ==
    XmlCalled
    => /\ (/\ call.minrow # PyNone
           /\ call.maxrow # PyNone
           /\ 0 <= call.minrow.val
           /\ call.minrow.val <= call.maxrow.val
           /\ call.maxrow.val <= Len(call.table.rows))
          => ReturnsRows(call.minrow.val, call.maxrow.val)
       /\ (call.minrow = PyNone /\ call.maxrow = PyNone)
          => ReturnsRows(0, Len(call.table.rows))

\* every instance the call made has been given, in the nine fields that a
\* table does not hold, the values of the arguments of the call
CarriesArgs(P, kw) ==
    /\ P.deltaT = Arg(kw, "deltaT")
    /\ P.fref = Arg(kw, "fref")
    /\ P.lambda1 = Arg(kw, "lambda1")
    /\ P.lambda2 = Arg(kw, "lambda2")
    /\ P.waveFlags = Arg(kw, "waveFlags")
    /\ P.nonGRparams = Arg(kw, "nonGRparams")
    /\ P.detector = Arg(kw, "detector")
    /\ P.deltaF = Arg(kw, "deltaF")
    /\ P.fmax = Arg(kw, "fmax")

\* C28: every instance that xml_to_ChooseWaveformParams_array returns, and
\* every instance the constructor builds, holds in deltaT, fref, lambda1,
\* lambda2, waveFlags, nonGRparams, detector, deltaF and fmax the values
\* passed for these arguments, and the defaults for those not passed.
C28_FieldsAsPassed ==
    /\ (call.op = "ChooseWaveformParams" /\ call.ret # Pending)
         => call.ret.ok /\ CarriesArgs(call.ret.val, call.kw)
    /\ (XmlCalled /\ call.ret.ok)
         => \A k \in 1 .. Len(call.ret.val) : CarriesArgs(call.ret.val[k], call.kw)

\* a name of Types has been looked up in one of the four tables
Subscripted == call.op = "subscript" /\ call.ret # Pending

\* C21 as stated: every name of Types (string, int, float and time names) is
\* mapped by ToFormat, by ToPyType, by ToNumPyType and by ToSQLiteType.
C21_EveryTypeMapped ==
    (Subscripted /\ call.key \in Elements(Types)) => call.ret.ok

\* the names the table t maps: the int and float names, and for every table
\* but ToNumPyType the string names as well
MappedBy(t) ==
    Elements(IntTypes) \cup Elements(FloatTypes)
    \cup (IF t = "ToNumPyType" THEN {} ELSE Elements(StringTypes))

\* C21 as the tables are: ToFormat, ToPyType and ToSQLiteType map every
\* string, int and float name of Types, ToNumPyType maps every int and float
\* name and no string name, and the time names (GPS, Unix, ISO-8601) are
\* mapped by none of the four; a name that is not mapped raises KeyError.
C21_MappedTypes ==
    Subscripted
    => /\ call.ret.ok <=> call.key \in MappedBy(call.table)
       /\ ~call.ret.ok => call.ret = Raise("KeyError")
       /\ (call.ret.ok /\ call.table = "ToSQLiteType")
            => call.ret.val = (IF call.key \in Elements(StringTypes) THEN "TEXT"
                               ELSE IF call.key \in Elements(IntTypes) THEN "INTEGER"
                               ELSE "REAL")

\* a float name has been looked up in ToNumPyType and found
C21_Witness ==
    /\ Subscripted
    /\ call.table = "ToNumPyType"
    /\ call.key = "real_4"
    /\ call.ret = Ok("float32")
====
